---- MODULE Spec2Model ----
(***************************************************************************)
(* Model of the iRock battery drivers of venus-os_dbus-serialbattery.      *)
(*                                                                         *)
(* The catalog-driven driver (dbus-serialbattery/bms/irock.py) is modelled *)
(* as a set of threads that call the methods of iRock objects.  Every      *)
(* thread has a call stack of frames; a frame's pc names the statement    *)
(* about to execute ("L133" is source line 133; the with-statements        *)
(* use the labels with_port, with_address, io, exit_address, exit_port).   *)
(* Module globals (port_locks, address_locks, mbdevs, the lru caches and   *)
(* their shared expiration times) are the shared state.                    *)
(*                                                                         *)
(* Time is counted in seconds.  Statements take no time: the clock only    *)
(* advances while every thread is idle, waits for a lock, or waits for     *)
(* the answer of a transport request.                                      *)
(***************************************************************************)
EXTENDS Integers, Sequences, FiniteSets, TLC

(* ---------------------------------------------------------------------- *)
(* Encoding of Python values                                               *)
(* ---------------------------------------------------------------------- *)
\* None in an integer slot (hardware_support_register: None)
None == -1
\* None in a lock or Version slot
NoLock == <<>>
NoVersion == <<>>

(* ---------------------------------------------------------------------- *)
(* Call frames, results and per-operation observations                     *)
(* ---------------------------------------------------------------------- *)
\* what a call left for its caller: nothing yet, a returned value, an exception
NoRet == [kind |-> "none", val |-> "", num |-> 0, ver |-> NoVersion]

NoObs == [op |-> "", name |-> "", acc |-> "", n |-> None, start |-> 0,
          reads |-> 0, coils |-> 0, versions |-> 0, failed |-> 0, mfailed |-> 0,
          denied |-> 0, served |-> 0, adr |-> None]

RetVal(v) == [kind |-> "ret", val |-> v, num |-> 0, ver |-> NoVersion]
RetNum(v, n) == [kind |-> "ret", val |-> v, num |-> n, ver |-> NoVersion]
RetVer(v) == [kind |-> "ret", val |-> IF v = NoVersion THEN "None" ELSE "Version", num |-> 0, ver |-> v]
Exc(e) == [kind |-> "exc", val |-> e, num |-> 0, ver |-> NoVersion]

Frame(fn, pc) ==
    [val |-> "", num |-> 0, ver |-> NoVersion, name |-> "", acc |-> "", n |-> None,
     fn |-> fn, pc |-> pc, f |-> "", typ |-> "", exc |-> "", hit |-> FALSE, at |-> 0, t0 |-> 0,
     plock |-> NoLock, alock |-> NoLock, ioport |-> None, raw |-> None, bits |-> <<>>]

(* ---------------------------------------------------------------------- *)
(* Register catalog (generated tables of the source, in dict order)        *)
(* ---------------------------------------------------------------------- *)
IROCK_TO_LOCAL_FIELD_NAMES ==
    "Manufacturer_ID" :> "manufacturer_id" @@
    "Modbus_Version" :> "modbus_version" @@
    "Hardware_Name" :> "hardware_name" @@
    "Hardware_Version" :> "hardware_version" @@
    "Serial_Number" :> "serial_number" @@
    "SW_Version" :> "sw_version" @@
    "Number_of_Cells" :> "cell_count" @@
    "Capacity" :> "capacity" @@
    "Battery_Voltage" :> "voltage" @@
    "Battery_Current" :> "current" @@
    "Battery_SOC" :> "soc" @@
    "Remaining_Capacity" :> "remaining_capacity" @@
    "Max_Charge_Current" :> "max_battery_charge_current" @@
    "Max_Discharge_Current" :> "max_battery_discharge_current" @@
    "Max_Cell_Voltage" :> "max_battery_voltage_bms" @@
    "Min_Cell_Voltage" :> "min_battery_voltage_bms" @@
    "Temperature_Sensor_1" :> "temp1" @@
    "Temperature_Sensor_2" :> "temp2" @@
    "Temperature_Sensor_3" :> "temp3" @@
    "Temperature_Sensor_4" :> "temp4" @@
    "MOSFET_Temperature" :> "temp_mos" @@
    "Feedback_Shunt_Current" :> "feedback_shunt_current" @@
    "Charge_FET" :> "charge_fet" @@
    "Discharge_FET" :> "discharge_fet" @@
    "Alarm" :> "alarm" @@
    "Warning" :> "warning" @@
    "Cell_Voltage" :> "voltage" @@
    "Cell_Balance_Status" :> "balance" @@
    "Production" :> "production" @@
    "Custom_Field" :> "custom_field" @@
    "SOH" :> "soh" @@
    "Balance_FET" :> "balance_fet"

IROCK_MODBUS_REGISTERS == <<
    [version |-> <<2, 0, 0>>, register |-> <<
        [fieldname |-> "Manufacturer_ID", address |-> 0, array_size |-> 1, type |-> "uint16", hardware_support_register |-> None],
        [fieldname |-> "Modbus_Version", address |-> 1, array_size |-> 16, type |-> "char", hardware_support_register |-> None],
        [fieldname |-> "Hardware_Name", address |-> 9, array_size |-> 16, type |-> "char", hardware_support_register |-> None],
        [fieldname |-> "Hardware_Version", address |-> 17, array_size |-> 8, type |-> "char", hardware_support_register |-> None],
        [fieldname |-> "Serial_Number", address |-> 21, array_size |-> 12, type |-> "char", hardware_support_register |-> None],
        [fieldname |-> "SW_Version", address |-> 27, array_size |-> 16, type |-> "char", hardware_support_register |-> None],
        [fieldname |-> "Number_of_Cells", address |-> 35, array_size |-> 1, type |-> "uint16", hardware_support_register |-> None],
        [fieldname |-> "Battery_Voltage", address |-> 36, array_size |-> 1, type |-> "float32", hardware_support_register |-> None],
        [fieldname |-> "Battery_Current", address |-> 38, array_size |-> 1, type |-> "float32", hardware_support_register |-> 0],
        [fieldname |-> "Battery_SOC", address |-> 40, array_size |-> 1, type |-> "float32", hardware_support_register |-> 1],
        [fieldname |-> "Capacity", address |-> 42, array_size |-> 1, type |-> "float32", hardware_support_register |-> None],
        [fieldname |-> "Remaining_Capacity", address |-> 44, array_size |-> 1, type |-> "float32", hardware_support_register |-> 2],
        [fieldname |-> "Max_Charge_Current", address |-> 46, array_size |-> 1, type |-> "float32", hardware_support_register |-> None],
        [fieldname |-> "Max_Discharge_Current", address |-> 48, array_size |-> 1, type |-> "float32", hardware_support_register |-> None],
        [fieldname |-> "Max_Cell_Voltage", address |-> 50, array_size |-> 1, type |-> "float32", hardware_support_register |-> None],
        [fieldname |-> "Min_Cell_Voltage", address |-> 52, array_size |-> 1, type |-> "float32", hardware_support_register |-> None],
        [fieldname |-> "Temperature_Sensor_1", address |-> 54, array_size |-> 1, type |-> "float32", hardware_support_register |-> 3],
        [fieldname |-> "Temperature_Sensor_2", address |-> 56, array_size |-> 1, type |-> "float32", hardware_support_register |-> 4],
        [fieldname |-> "Temperature_Sensor_3", address |-> 58, array_size |-> 1, type |-> "float32", hardware_support_register |-> 5],
        [fieldname |-> "Temperature_Sensor_4", address |-> 60, array_size |-> 1, type |-> "float32", hardware_support_register |-> 6],
        [fieldname |-> "MOSFET_Temperature", address |-> 62, array_size |-> 1, type |-> "float32", hardware_support_register |-> 7],
        [fieldname |-> "Feedback_Shunt_Current", address |-> 64, array_size |-> 1, type |-> "float32", hardware_support_register |-> 8],
        [fieldname |-> "Charge_FET", address |-> 66, array_size |-> 1, type |-> "bool", hardware_support_register |-> None],
        [fieldname |-> "Discharge_FET", address |-> 67, array_size |-> 1, type |-> "bool", hardware_support_register |-> None],
        [fieldname |-> "Low_Voltage_Alarm", address |-> 68, array_size |-> 1, type |-> "uint8", hardware_support_register |-> None],
        [fieldname |-> "High_Voltage_Alarm", address |-> 69, array_size |-> 1, type |-> "uint8", hardware_support_register |-> None],
        [fieldname |-> "Low_Cell_Voltage_Alarm", address |-> 70, array_size |-> 1, type |-> "uint8", hardware_support_register |-> None],
        [fieldname |-> "High_Cell_Voltage_Alarm", address |-> 71, array_size |-> 1, type |-> "uint8", hardware_support_register |-> None],
        [fieldname |-> "Low_SOC_Alarm", address |-> 72, array_size |-> 1, type |-> "uint8", hardware_support_register |-> None],
        [fieldname |-> "High_Charge_Current_Alarm", address |-> 73, array_size |-> 1, type |-> "uint8", hardware_support_register |-> None],
        [fieldname |-> "High_Discharge_Current_Alarm", address |-> 74, array_size |-> 1, type |-> "uint8", hardware_support_register |-> None],
        [fieldname |-> "Temperature_Alarm", address |-> 75, array_size |-> 1, type |-> "uint8", hardware_support_register |-> None]>>],
    [version |-> <<1, 0, 0>>, register |-> <<
        [fieldname |-> "Manufacturer_ID", address |-> 0, array_size |-> 1, type |-> "uint16", hardware_support_register |-> None],
        [fieldname |-> "Modbus_Version", address |-> 1, array_size |-> 16, type |-> "char", hardware_support_register |-> None],
        [fieldname |-> "Hardware_Name", address |-> 9, array_size |-> 16, type |-> "char", hardware_support_register |-> None],
        [fieldname |-> "Hardware_Version", address |-> 17, array_size |-> 8, type |-> "char", hardware_support_register |-> None],
        [fieldname |-> "Serial_Number", address |-> 21, array_size |-> 12, type |-> "char", hardware_support_register |-> None],
        [fieldname |-> "SW_Version", address |-> 27, array_size |-> 16, type |-> "char", hardware_support_register |-> None],
        [fieldname |-> "Number_of_Cells", address |-> 35, array_size |-> 1, type |-> "uint16", hardware_support_register |-> None],
        [fieldname |-> "Battery_Voltage", address |-> 36, array_size |-> 1, type |-> "float32", hardware_support_register |-> None],
        [fieldname |-> "Battery_Current", address |-> 38, array_size |-> 1, type |-> "float32", hardware_support_register |-> None],
        [fieldname |-> "Battery_SOC", address |-> 40, array_size |-> 1, type |-> "float32", hardware_support_register |-> None],
        [fieldname |-> "Capacity", address |-> 42, array_size |-> 1, type |-> "float32", hardware_support_register |-> None],
        [fieldname |-> "Remaining_Capacity", address |-> 44, array_size |-> 1, type |-> "float32", hardware_support_register |-> None],
        [fieldname |-> "Max_Charge_Current", address |-> 46, array_size |-> 1, type |-> "float32", hardware_support_register |-> None],
        [fieldname |-> "Max_Discharge_Current", address |-> 48, array_size |-> 1, type |-> "float32", hardware_support_register |-> None],
        [fieldname |-> "Max_Cell_Voltage", address |-> 50, array_size |-> 1, type |-> "float32", hardware_support_register |-> None],
        [fieldname |-> "Min_Cell_Voltage", address |-> 52, array_size |-> 1, type |-> "float32", hardware_support_register |-> None],
        [fieldname |-> "Temperature_Sensor_1", address |-> 54, array_size |-> 1, type |-> "float32", hardware_support_register |-> None],
        [fieldname |-> "Temperature_Sensor_2", address |-> 56, array_size |-> 1, type |-> "float32", hardware_support_register |-> None],
        [fieldname |-> "Temperature_Sensor_3", address |-> 58, array_size |-> 1, type |-> "float32", hardware_support_register |-> None],
        [fieldname |-> "Temperature_Sensor_4", address |-> 60, array_size |-> 1, type |-> "float32", hardware_support_register |-> None],
        [fieldname |-> "MOSFET_Temperature", address |-> 62, array_size |-> 1, type |-> "float32", hardware_support_register |-> None]>>]>>

IROCK_MODBUS_CELL_REGISTERS == <<
    [version |-> <<2, 0, 0>>, offset |-> 76, length |-> 3, register |-> <<
        [fieldname |-> "Cell_Voltage", offset |-> 0, array_size |-> 1, type |-> "float32", hardware_support_register |-> None],
        [fieldname |-> "Cell_Balance_Status", offset |-> 2, array_size |-> 1, type |-> "bool", hardware_support_register |-> None]>>],
    [version |-> <<1, 0, 0>>, offset |-> 64, length |-> 4, register |-> <<
        [fieldname |-> "Cell_Voltage", offset |-> 0, array_size |-> 1, type |-> "float32", hardware_support_register |-> None],
        [fieldname |-> "Cell_Balance_Status", offset |-> 2, array_size |-> 1, type |-> "bool", hardware_support_register |-> None],
        [fieldname |-> "res", offset |-> 3, array_size |-> 1, type |-> "uint16", hardware_support_register |-> None]>>]>>


(* ---------------------------------------------------------------------- *)
(* Bounds and input sets                                                   *)
(* ---------------------------------------------------------------------- *)
\* operations one thread starts
PollOps == 3
CacheOps == 3
LockOps == 1
DeviceOps == 1
VersionOps == 2
FloatOps == 2
RefreshOps == 2
LttOps == 3
MaxCells == 2
\* clock advances in one behaviour
MaxTicks == 2
Threads == {1, 2}
Devices == {1, 2}
Ports == {1, 2}
Addresses == {1, 2}
\* seconds the clock may advance in one step
TickSteps == {1, 119}
\* what read_serial_data answers an LTT/JDB driver for command_general: False
\* (the empty tuple), or the balance word, the high balance word, the
\* protection word and the number of cells of the frame
GenData == {<<>>} \cup ({0, 1, 2, 4} \X {0} \X {0, 1, 4096} \X {1, 2, 3})
\* and for command_cell: False (None), or a payload of that many bytes
CellData == {None, 0, 2, 6}
\* numeric components of the string a device answers for Modbus_Version
VersionAnswers == {<<1, 0, 0>>, <<2, 0, 3>>, <<3, 1, 0>>, <<0, 9, 0>>, <<>>}
\* values a device answers for a coil and for a 16-bit register
CoilAnswers == {0, 1}
RegisterAnswers == {0, 1, 2}
\* arguments of direct calls
FieldNames == {"voltage", "current", "soh", "hardware_name"}
CellFieldNames == {"voltage", "balance", "soh"}
TypeNames == {"uint16", "bool", "uint8", "float16", "float32", "float64"}
AccValues == {"True", "False"}

(* ---------------------------------------------------------------------- *)
(* timed_lru_cache parameters                                              *)
(* ---------------------------------------------------------------------- *)
CachedFunctions == {"get_modbus_version", "get_modbus_hw_support", "get_field", "get_cell_field"}
\* @timed_lru_cache(minutes=2) and @timed_lru_cache(seconds=1), in seconds
lifetime(f) == IF f \in {"get_modbus_version", "get_modbus_hw_support"} THEN 120 ELSE 1

(* ---------------------------------------------------------------------- *)
(* Pure functions                                                          *)
(* ---------------------------------------------------------------------- *)
\* class BaseType(Enum): the strings BaseType(type) accepts
BaseType == {"int8", "uint8", "char", "int16", "uint16", "int32", "uint32",
             "int64", "uint64", "float32", "float64", "bool"}
\* the types get_modbus_value has a branch for
HandledTypes == BaseType \ {"int8", "uint8"}

\* Version.coerce(str(...)): missing minor and patch become 0; a string with no
\* number raises ValueError (NoVersion here, the caller maps it to None)
VersionCoerce(raw) ==
    IF Len(raw) = 0 THEN NoVersion
    ELSE <<raw[1], IF Len(raw) >= 2 THEN raw[2] ELSE 0, IF Len(raw) >= 3 THEN raw[3] ELSE 0>>

\* value get_modbus_version returns for a transport outcome (lines 294-305)
get_modbus_version_result(ok, raw) ==
    IF ~ok THEN NoVersion
    ELSE LET modbus_version == VersionCoerce(raw) IN
         IF modbus_version = NoVersion THEN NoVersion
         ELSE IF modbus_version[1] = 0 THEN NoVersion
         ELSE modbus_version

\* value get_modbus_hw_support returns for a transport outcome (lines 312-317)
get_modbus_hw_support_result(ok, bit) ==
    IF ok THEN (IF bit # 0 THEN "True" ELSE "False") ELSE "False"

\* value get_modbus_value returns for a transport outcome (lines 326-352);
\* integers are returned as read, BOOL is "register != 0", a float is decoded
\* from its registers (the frame keeps its bytes)
get_modbus_value_result(type, ok, raw) ==
    IF ~ok THEN [val |-> "None", num |-> 0]
    ELSE IF type = "bool" THEN [val |-> IF raw # 0 THEN "True" ELSE "False", num |-> 0]
    ELSE IF type \in {"float32", "float64"} THEN [val |-> "float", num |-> 0]
    ELSE [val |-> "num", num |-> raw]

\* minimalmodbus byte orders: BYTEORDER_BIG is the default of every read,
\* BYTEORDER_LITTLE_SWAP the one the float reads pass
BYTEORDER_BIG == 0
BYTEORDER_LITTLE_SWAP == 3

\* read_float(address, number_of_registers=..., byteorder=...) as called by
\* get_modbus_value for FLOAT32 and FLOAT64 (lines 341-344)
number_of_registers(type) == IF type = "float64" THEN 4 ELSE 2
byteorder_default(type) == IF type = "float64" THEN BYTEORDER_BIG ELSE BYTEORDER_LITTLE_SWAP
byteorder(type) == BYTEORDER_LITTLE_SWAP

\* read_float(address, byteorder=3) of the legacy driver: two registers
legacy_byteorder == 3

\* the registers a device answers for a float: consecutive 16-bit words from raw
FloatPayload(raw, n) == [i \in 1..n |-> (raw + i - 1) % 65536]

\* read_float: the bytes of the IEEE value, most significant first, that the
\* byte order makes of the payload.  The bytes arrive register by register,
\* high byte first; orders 2 and 3 swap the bytes of each register, orders 1
\* and 3 read the result little-endian.
read_float(payload, order) ==
    LET wire == [i \in 1..(2 * Len(payload)) |->
                    IF i % 2 = 1 THEN payload[(i + 1) \div 2] \div 256
                    ELSE payload[i \div 2] % 256]
        Reverse(seq) == [i \in 1..Len(seq) |-> seq[Len(seq) + 1 - i]]
        SwapPairs(seq) == [i \in 1..Len(seq) |-> seq[IF i % 2 = 1 THEN i + 1 ELSE i - 1]]
        swapped == IF order \in {2, 3} THEN SwapPairs(wire) ELSE wire
    IN IF order \in {1, 3} THEN Reverse(swapped) ELSE swapped

\* inner loop of get_field / get_cell_field (lines 364-366): first entry whose
\* local name is `name`; IROCK_TO_LOCAL_FIELD_NAMES[fieldname] raises KeyError
RECURSIVE ScanRegister(_, _, _)
ScanRegister(register, i, name) ==
    IF i > Len(register) THEN [kind |-> "notfound", table |-> 0, index |-> 0]
    ELSE IF register[i].fieldname \notin DOMAIN IROCK_TO_LOCAL_FIELD_NAMES
         THEN [kind |-> "KeyError", table |-> 0, index |-> i]
    ELSE IF IROCK_TO_LOCAL_FIELD_NAMES[register[i].fieldname] = name
         THEN [kind |-> "found", table |-> 0, index |-> i]
    ELSE ScanRegister(register, i + 1, name)

\* the outer loop with tables chosen by the whole version, patch included
RECURSIVE ScanTables_exact(_, _, _, _)
ScanTables_exact(tables, j, modbusVersion, name) ==
    IF j > Len(tables) THEN [kind |-> "notfound", table |-> 0, index |-> 0]
    ELSE IF modbusVersion = NoVersion THEN [kind |-> "AttributeError", table |-> j, index |-> 0]
    ELSE IF tables[j].version = modbusVersion
         THEN LET r == ScanRegister(tables[j].register, 1, name) IN
              IF r.kind = "notfound" THEN ScanTables_exact(tables, j + 1, modbusVersion, name)
              ELSE [r EXCEPT !.table = j]
    ELSE ScanTables_exact(tables, j + 1, modbusVersion, name)

\* outer loop (lines 362-363): tables whose major and minor equal the device's;
\* modbusVersion None raises AttributeError on .major
RECURSIVE ScanTables(_, _, _, _)
ScanTables(tables, j, modbusVersion, name) ==
    IF j > Len(tables) THEN [kind |-> "notfound", table |-> 0, index |-> 0]
    ELSE IF modbusVersion = NoVersion THEN [kind |-> "AttributeError", table |-> j, index |-> 0]
    ELSE IF /\ tables[j].version[1] = modbusVersion[1]
            /\ tables[j].version[2] = modbusVersion[2]
         THEN LET r == ScanRegister(tables[j].register, 1, name) IN
              IF r.kind = "notfound" THEN ScanTables(tables, j + 1, modbusVersion, name)
              ELSE [r EXCEPT !.table = j]
    ELSE ScanTables(tables, j + 1, modbusVersion, name)

(* ---------------------------------------------------------------------- *)
(* State                                                                   *)
(* ---------------------------------------------------------------------- *)
VARIABLES
    self,           \* self[t]: the iRock object whose methods thread t calls
    port,           \* port[d]: self.port of object d
    address,        \* address[d]: self.address of object d
    port_locks,     \* global dict port -> lock object (NoLock: no entry)
    address_locks,  \* global dict address -> lock object
    mbdevs,         \* global dict address -> port of the Instrument stored (None: no entry)
    holder,         \* lock object -> thread that holds it (0: free)
    stack,          \* stack[t]: call stack of thread t, innermost frame last
    ret,            \* ret[t]: what the last finished call returned or raised
    now,            \* datetime.now(), seconds
    ticks,          \* clock advances so far
    cache,          \* cache[f]: entries of functools.lru_cache of f
    expiration,     \* expiration[f]: func.expiration of f
    budget,         \* budget[t]: number of operations thread t may still start
    obs,            \* obs[t]: what the current (or last) operation of t did
    setup,          \* objects whose test_connection has passed lines 133-136
    cell_count,     \* cell_count[d]: self.cell_count of object d (None: unset)
    cells,          \* cells[d]: len(self.cells) of object d
    firmware,       \* firmware[<<p, a>>]: version string of the device at address a on port p
    driver,         \* the driver module that is loaded (Catalog or Legacy)
    locks,          \* global dict address -> lock object of the legacy driver
    resolved,       \* resolved[a]: version first read for address a since its Instrument was stored
    lttjdb,         \* attributes of the LttJdb object, and what its last operation did
    protection      \* attributes of the LttJdbProtection object of the LttJdb object

vars == <<self, port, address, port_locks, address_locks, mbdevs, holder, stack, ret,
          now, ticks, cache, expiration, budget, obs, setup, cell_count, cells, firmware,
          driver, locks, resolved, lttjdb, protection>>

globals == <<port_locks, address_locks, mbdevs, holder>>
config == <<self, port, address, firmware, driver>>
legacy == <<locks, lttjdb, protection>>
battery == <<cell_count, cells>>
clock == <<now, ticks>>
caches == <<cache, expiration>>


Idle(t) == stack[t] = <<>>
Top(t) == stack[t][Len(stack[t])]
At(t, fn, pc) == ~Idle(t) /\ Top(t).fn = fn /\ Top(t).pc = pc
SetTop(t, fr) == [stack EXCEPT ![t] = [@ EXCEPT ![Len(@)] = fr]]
Call(t, fr, callee) == [stack EXCEPT ![t] = Append([@ EXCEPT ![Len(@)] = fr], callee)]
Pop(t) == [stack EXCEPT ![t] = SubSeq(@, 1, Len(@) - 1)]

\* the innermost frame returns r (or raises, r.kind = "exc") to its caller
Return(t, r) ==
    /\ stack' = Pop(t)
    /\ ret' = [ret EXCEPT ![t] = r]

\* a transport request of thread t is in progress
InFlight(t) == ~Idle(t) /\ Top(t).pc = "io"
\* thread t waits for a lock another thread holds
WaitsForLock(t) ==
    /\ ~Idle(t)
    /\ \/ /\ Top(t).pc = "with_port"
          /\ port_locks[port[self[t]]] # NoLock
          /\ holder[port_locks[port[self[t]]]] # 0
       \/ /\ Top(t).pc = "with_address"
          /\ address_locks[address[self[t]]] # NoLock
          /\ holder[address_locks[address[self[t]]]] # 0
       \/ /\ Top(t).pc = "with"
          /\ locks[address[self[t]]] # NoLock
          /\ holder[locks[address[self[t]]]] # 0
HeldBy(t) == {lk \in DOMAIN holder : holder[lk] = t}

\* the two driver modules; a process loads one of them
Catalog == "dbus-serialbattery/bms/irock.py"
Legacy == "etc/dbus-serialbattery/bms/irock.py"

\* the functions of the legacy driver
LegacyFunctions == {"etc.test_connection", "etc.unique_identifier", "etc.get_settings",
                    "etc.refresh_data", "etc.read_status_data", "etc.read_cell_data",
                    "etc.get_modbus_version"}

\* A statement that touches nothing but the thread's own frames (a table
\* lookup, a return, the propagation of an exception) commutes with every step
\* of the other threads, so it runs before the other threads go on.
Urgent(t) ==
    /\ ~Idle(t)
    /\ \/ ret[t].kind = "exc"
       \/ /\ Top(t).fn \in {"get_field", "get_cell_field"}
          /\ Top(t).pc \in {"L360", "L368"}
       \/ /\ Top(t).fn = "wrapped_func"
          /\ Top(t).pc = "L99"
       \/ /\ Top(t).fn = "test_connection"
          /\ Top(t).pc \in {"L152", "L153", "L156", "L157", "L161", "L166", "L167"}
       \/ Top(t).fn \in {"refresh_data", "unique_identifier"}

Turn(t) == \A u \in Threads \ {t} : ~Urgent(u)

(* ---------------------------------------------------------------------- *)
(* Starting an operation                                                   *)
(* ---------------------------------------------------------------------- *)
\* thread t, idle, calls a method of object d
Begin(t, d, fr, o) ==
    /\ Idle(t)
    /\ Turn(t)
    /\ budget[t] > 0
    /\ driver = IF fr.fn \in LegacyFunctions THEN Legacy ELSE Catalog
    /\ budget' = [budget EXCEPT ![t] = @ - 1]
    /\ self' = [self EXCEPT ![t] = d]
    /\ stack' = [stack EXCEPT ![t] = <<fr>>]
    /\ ret' = [ret EXCEPT ![t] = NoRet]
    /\ obs' = [obs EXCEPT ![t] = [o EXCEPT !.start = now]]
    /\ UNCHANGED <<port, address, firmware, driver, resolved, legacy, battery, globals, clock,
                   caches, setup>>

\* the frame of timed_lru_cache's wrapped_func around function f
Wrapped(f, name, n, acc) ==
    [Frame("wrapped_func", "L95") EXCEPT !.f = f, !.name = name, !.n = n, !.acc = acc,
                                         !.t0 = now]

call_test_connection(t, d) ==
    Begin(t, d, Frame("test_connection", "L133"), [NoObs EXCEPT !.op = "test_connection"])

call_get_modbus_version(t, d) ==
    Begin(t, d, Wrapped("get_modbus_version", "", address[d], ""),
          [NoObs EXCEPT !.op = "get_modbus_version", !.n = address[d]])

call_get_modbus_hw_support(t, d, coil) ==
    Begin(t, d, Wrapped("get_modbus_hw_support", "", coil, ""),
          [NoObs EXCEPT !.op = "get_modbus_hw_support", !.n = coil])

call_get_modbus_value(t, d, a, type) ==
    Begin(t, d, [Frame("get_modbus_value", "L321") EXCEPT !.n = a, !.typ = type],
          [NoObs EXCEPT !.op = "get_modbus_value", !.n = a, !.name = type])

call_get_field(t, d, name, acc) ==
    Begin(t, d, Wrapped("get_field", name, None, acc),
          [NoObs EXCEPT !.op = "get_field", !.name = name, !.acc = acc])

call_get_cell_field(t, d, name, c, acc) ==
    Begin(t, d, Wrapped("get_cell_field", name, c, acc),
          [NoObs EXCEPT !.op = "get_cell_field", !.name = name, !.acc = acc, !.n = c])

call_pass(t, d, fn) ==
    Begin(t, d, [Frame(fn, "call") EXCEPT !.n = 1, !.acc = "True"], [NoObs EXCEPT !.op = fn])

call_refresh_data(t, d) ==
    Begin(t, d, Frame("refresh_data", "L208"), [NoObs EXCEPT !.op = "refresh_data"])

call_unique_identifier(t, d) ==
    Begin(t, d, Frame("unique_identifier", "L174"), [NoObs EXCEPT !.op = "unique_identifier"])

(* ---------------------------------------------------------------------- *)
(* timed_lru_cache.wrapped_func                                            *)
(* ---------------------------------------------------------------------- *)
\* lru_cache key: the positional arguments, self included
Key(t, fr) == [name |-> fr.name, acc |-> fr.acc, n |-> fr.n, d |-> self[t]]

\* first statement of each cached function
Body(fr) ==
    [Frame(fr.f, CASE fr.f = "get_modbus_version" -> "L290"
                   [] fr.f = "get_modbus_hw_support" -> "L309"
                   [] fr.f = "get_field" -> "L359"
                   [] fr.f = "get_cell_field" -> "L386")
        EXCEPT !.name = fr.name, !.n = fr.n, !.acc = fr.acc]

\* lines 95-97 without the clearing: the cache outlives its expiration
wrapped_func_expire_kept(t) ==
    /\ At(t, "wrapped_func", "L95")
    /\ Turn(t)
    /\ UNCHANGED caches
    /\ stack' = SetTop(t, [Top(t) EXCEPT !.pc = "L98"])
    /\ UNCHANGED <<config, resolved, legacy, battery, globals, clock, ret, budget, obs, setup>>

\* lines 95-97: an expired cache is cleared and the shared expiration is reset
wrapped_func_expire(t) ==
    /\ At(t, "wrapped_func", "L95")
    /\ Turn(t)
    /\ LET f == Top(t).f IN
       IF now >= expiration[f]
       THEN /\ cache' = [cache EXCEPT ![f] = {}]
            /\ expiration' = [expiration EXCEPT ![f] = now + lifetime(f)]
       ELSE UNCHANGED caches
    /\ stack' = SetTop(t, [Top(t) EXCEPT !.pc = "L98"])
    /\ UNCHANGED <<config, resolved, legacy, battery, globals, clock, ret, budget, obs, setup>>

\* line 98: func(*args): the lru_cache answers a known key, else runs the function
wrapped_func_call(t) ==
    /\ At(t, "wrapped_func", "L98")
    /\ Turn(t)
    /\ LET fr == Top(t)
           hits == {e \in cache[fr.f] : e.key = Key(t, fr)}
       IN IF hits # {}
          THEN LET e == CHOOSE e \in hits : TRUE IN
               /\ stack' = SetTop(t, [fr EXCEPT !.pc = "L99", !.hit = TRUE, !.val = e.val,
                                                !.at = e.at, !.ver = e.ver])
               /\ ret' = ret
               /\ obs' = IF Len(stack[t]) = 1 THEN [obs EXCEPT ![t].served = @ + 1] ELSE obs
          ELSE /\ stack' = Call(t, [fr EXCEPT !.pc = "L98r", !.num = obs[t].failed], Body(fr))
               /\ ret' = [ret EXCEPT ![t] = NoRet]
               /\ obs' = obs
    /\ UNCHANGED <<config, resolved, legacy, battery, globals, clock, caches, budget, setup>>

\* line 98, the function returned: lru_cache stores the result unless the key was
\* stored meanwhile; lines 99-101: a None result clears the whole cache
wrapped_func_store(t) ==
    /\ At(t, "wrapped_func", "L98r")
    /\ Turn(t)
    /\ ret[t].kind = "ret"
    /\ LET fr == Top(t)
           known == \E e \in cache[fr.f] : e.key = Key(t, fr)
           entry == [val |-> ret[t].val, ver |-> ret[t].ver, at |-> now, key |-> Key(t, fr),
                     fault |-> obs[t].failed > fr.num]
       IN cache' = [cache EXCEPT ![fr.f] =
                       IF ret[t].val = "None" THEN {}
                       ELSE IF known THEN @ ELSE @ \cup {entry}]
    /\ stack' = Pop(t)
    /\ UNCHANGED <<config, resolved, legacy, battery, globals, clock, expiration, ret, budget, obs,
                   setup>>

\* lines 99-101 after a cache hit
wrapped_func_hit(t) ==
    /\ At(t, "wrapped_func", "L99")
    /\ Turn(t)
    /\ cache' = [cache EXCEPT ![Top(t).f] = IF Top(t).val = "None" THEN {} ELSE @]
    /\ Return(t, [kind |-> "ret", val |-> Top(t).val, num |-> 0, ver |-> Top(t).ver])
    /\ UNCHANGED <<config, resolved, legacy, battery, globals, clock, expiration, budget, obs,
                   setup>>

(* ---------------------------------------------------------------------- *)
(* Locks: with port_locks[self.port]: with address_locks[self.address]:    *)
(* ---------------------------------------------------------------------- *)
LockedFunctions == {"test_connection", "get_modbus_version", "get_modbus_hw_support",
                    "get_modbus_value"}

\* what happens after the outer with-statement of frame fr is left
Leave(t, fr) ==
    CASE fr.fn = "test_connection" ->
           IF fr.exc # "" THEN Return(t, Exc(fr.exc))
           ELSE /\ stack' = SetTop(t, [fr EXCEPT !.pc = "L152"])
                /\ ret' = ret
      [] fr.fn = "get_modbus_version" ->
           \* except Exception (line 303): return None
           Return(t, RetVer(IF fr.exc # "" THEN NoVersion ELSE fr.ver))
      [] fr.fn = "get_modbus_hw_support" ->
           IF fr.exc # "" THEN Return(t, Exc(fr.exc)) ELSE Return(t, RetVal(fr.val))
      [] fr.fn = "get_modbus_value" ->
           IF fr.exc # "" THEN Return(t, Exc(fr.exc)) ELSE Return(t, RetNum(fr.val, fr.num))

AcquirePortLock(t) ==
    /\ ~Idle(t) /\ Top(t).pc = "with_port"
    /\ Turn(t)
    /\ LET lk == port_locks[port[self[t]]] IN
       /\ lk # NoLock
       /\ holder[lk] = 0
       /\ holder' = [holder EXCEPT ![lk] = t]
       /\ stack' = SetTop(t, [Top(t) EXCEPT !.pc = "with_address", !.plock = lk])
    /\ UNCHANGED <<config, resolved, legacy, battery, port_locks, address_locks, mbdevs, clock,
                   caches, ret, budget, obs, setup>>

AcquireAddressLock(t) ==
    /\ ~Idle(t) /\ Top(t).pc = "with_address"
    /\ Turn(t)
    /\ LET lk == address_locks[address[self[t]]] IN
       /\ lk # NoLock
       /\ holder[lk] = 0
       /\ holder' = [holder EXCEPT ![lk] = t]
       /\ stack' = SetTop(t, [Top(t) EXCEPT !.pc = "body", !.alock = lk])
    /\ UNCHANGED <<config, resolved, legacy, battery, port_locks, address_locks, mbdevs, clock,
                   caches, ret, budget, obs, setup>>

\* port_locks[self.port] or address_locks[self.address] has no entry
LockKeyError(t) ==
    /\ ~Idle(t)
    /\ Turn(t)
    /\ \/ /\ Top(t).pc = "with_port"
          /\ port_locks[port[self[t]]] = NoLock
          /\ Leave(t, [Top(t) EXCEPT !.exc = "KeyError"])
       \/ /\ Top(t).pc = "with_address"
          /\ address_locks[address[self[t]]] = NoLock
          /\ stack' = SetTop(t, [Top(t) EXCEPT !.exc = "KeyError", !.pc = "exit_port"])
          /\ ret' = ret
    /\ UNCHANGED <<config, resolved, legacy, battery, globals, clock, caches, budget, obs, setup>>

\* the inner with-statement is left without releasing its lock
ReleaseAddressLock_kept(t) ==
    /\ ~Idle(t) /\ Top(t).pc = "exit_address"
    /\ Turn(t)
    /\ stack' = SetTop(t, [Top(t) EXCEPT !.pc = "exit_port", !.alock = NoLock])
    /\ UNCHANGED <<config, resolved, legacy, battery, globals, clock, caches, ret, budget, obs,
                   setup>>

ReleaseAddressLock(t) ==
    /\ ~Idle(t) /\ Top(t).pc = "exit_address"
    /\ Turn(t)
    /\ holder' = [holder EXCEPT ![Top(t).alock] = 0]
    /\ stack' = SetTop(t, [Top(t) EXCEPT !.pc = "exit_port", !.alock = NoLock])
    /\ UNCHANGED <<config, resolved, legacy, battery, port_locks, address_locks, mbdevs, clock,
                   caches, ret, budget, obs, setup>>

\* the outer with-statement is left without releasing its lock
ReleasePortLock_kept(t) ==
    /\ ~Idle(t) /\ Top(t).pc = "exit_port"
    /\ Turn(t)
    /\ Leave(t, [Top(t) EXCEPT !.plock = NoLock])
    /\ UNCHANGED <<config, resolved, legacy, battery, globals, clock, caches, budget, obs, setup>>

ReleasePortLock(t) ==
    /\ ~Idle(t) /\ Top(t).pc = "exit_port"
    /\ Turn(t)
    /\ holder' = [holder EXCEPT ![Top(t).plock] = 0]
    /\ Leave(t, [Top(t) EXCEPT !.plock = NoLock])
    /\ UNCHANGED <<config, resolved, legacy, battery, port_locks, address_locks, mbdevs, clock,
                   caches, budget, obs, setup>>

(* ---------------------------------------------------------------------- *)
(* Transport functions                                                     *)
(* ---------------------------------------------------------------------- *)
\* lines 290, 309, 321-322: mbdev = mbdevs[...] (KeyError), type = BaseType(type)
\* (ValueError); get_modbus_version looks up its argument, the others self.address
transport_function_begin(t) ==
    /\ ~Idle(t)
    /\ Turn(t)
    /\ Top(t).fn \in LockedFunctions \ {"test_connection"}
    /\ Top(t).pc \in {"L290", "L309", "L321"}
    /\ LET fr == Top(t)
           a == IF fr.fn = "get_modbus_version" THEN fr.n ELSE address[self[t]]
       IN IF mbdevs[a] = None THEN Return(t, Exc("KeyError"))
          ELSE IF fr.fn = "get_modbus_value" /\ fr.typ \notin BaseType
               THEN Return(t, Exc("ValueError"))
          ELSE /\ stack' = SetTop(t, [fr EXCEPT !.pc = "with_port", !.ioport = mbdevs[a]])
               /\ ret' = ret
    /\ UNCHANGED <<config, resolved, legacy, battery, globals, clock, caches, budget, obs, setup>>

\* lines 294, 313, 327-346: the request goes out on the instrument's port
transport_call(t) ==
    /\ ~Idle(t) /\ Top(t).pc = "body"
    /\ Turn(t)
    /\ \/ Top(t).fn \in {"get_modbus_version", "get_modbus_hw_support"}
       \/ Top(t).fn = "get_modbus_value" /\ Top(t).typ \in HandledTypes
    /\ stack' = SetTop(t, [Top(t) EXCEPT !.pc = "io"])
    /\ obs' = [obs EXCEPT ![t] =
                 CASE Top(t).fn = "get_modbus_version" -> [@ EXCEPT !.versions = @ + 1]
                   [] Top(t).fn = "get_modbus_hw_support" -> [@ EXCEPT !.coils = @ + 1]
                   [] Top(t).fn = "get_modbus_value" ->
                        [@ EXCEPT !.reads = @ + 1, !.adr = Top(t).n]]
    /\ UNCHANGED <<config, resolved, legacy, battery, globals, clock, caches, ret, budget, setup>>

\* lines 347-349: no branch for the type (INT8, UINT8): result None, no request
get_modbus_value_unsupported(t) ==
    /\ At(t, "get_modbus_value", "body")
    /\ Turn(t)
    /\ Top(t).typ \notin HandledTypes
    /\ stack' = SetTop(t, [Top(t) EXCEPT !.pc = "exit_address", !.val = "None"])
    /\ UNCHANGED <<config, resolved, legacy, battery, globals, clock, caches, ret, budget, obs,
                   setup>>

\* thread t is in the mandatory block of a pass
InMandatory(t) ==
    \E i \in 1..Len(stack[t]) :
        /\ stack[t][i].fn \in {"get_settings", "read_status_data", "read_cell_data"}
        /\ stack[t][i].n <= IF stack[t][i].fn = "get_settings" THEN 2
                            ELSE IF stack[t][i].fn = "read_status_data" THEN 7
                            ELSE IF cell_count[self[t]] = None THEN 0 ELSE cell_count[self[t]]

Failed(t, ok) ==
    [obs EXCEPT ![t].failed = IF ok THEN @ ELSE @ + 1,
                ![t].mfailed = IF ok \/ ~InMandatory(t) THEN @ ELSE @ + 1]

\* the version first read for address a is kept until the next connection
Resolve(a, v) == IF resolved[a] = NoVersion THEN [resolved EXCEPT ![a] = v] ELSE resolved

\* line 294: mbdev.read_string(1, 8) answers, or raises (timeout, I/O error)
read_string_returns(t) ==
    /\ At(t, "get_modbus_version", "io")
    /\ Turn(t)
    /\ \E ok \in BOOLEAN :
        /\ stack' = SetTop(t, [Top(t) EXCEPT
                                  !.pc = "exit_address",
                                  !.ver = get_modbus_version_result(
                                              ok, firmware[<<Top(t).ioport, Top(t).n>>])])
        /\ obs' = Failed(t, ok)
        /\ resolved' = Resolve(Top(t).n, get_modbus_version_result(
                                             ok, firmware[<<Top(t).ioport, Top(t).n>>]))
    /\ UNCHANGED <<config, legacy, battery, globals, clock, caches, ret, budget, setup>>

\* line 313 with a second attempt: a request that raised is sent once more
read_bit_returns_retry(t) ==
    /\ At(t, "get_modbus_hw_support", "io")
    /\ Turn(t)
    /\ \E ok \in BOOLEAN : \E bit \in CoilAnswers :
        /\ ~ok => bit = 0
        /\ stack' = SetTop(t, [Top(t) EXCEPT !.pc = IF ok \/ obs[t].failed > 0
                                                     THEN "exit_address" ELSE "body",
                                        !.val = get_modbus_hw_support_result(ok, bit)])
        /\ obs' = [Failed(t, ok) EXCEPT ![t].denied = IF ok /\ bit = 0 THEN @ + 1 ELSE @]
    /\ UNCHANGED <<config, resolved, legacy, battery, globals, clock, caches, ret, budget, setup>>

\* line 313: mbdev.read_bit(address, 1) answers, or raises
read_bit_returns(t) ==
    /\ At(t, "get_modbus_hw_support", "io")
    /\ Turn(t)
    /\ \E ok \in BOOLEAN : \E bit \in CoilAnswers :
        /\ ~ok => bit = 0
        /\ stack' = SetTop(t, [Top(t) EXCEPT !.pc = "exit_address",
                                        !.val = get_modbus_hw_support_result(ok, bit)])
        /\ obs' = [Failed(t, ok) EXCEPT ![t].denied = IF ok /\ bit = 0 THEN @ + 1 ELSE @]
    /\ UNCHANGED <<config, resolved, legacy, battery, globals, clock, caches, ret, budget, setup>>

\* lines 327-346: the register read answers, or raises
read_register_returns(t) ==
    /\ At(t, "get_modbus_value", "io")
    /\ Turn(t)
    /\ \E ok \in BOOLEAN : \E raw \in RegisterAnswers :
        /\ ~ok => raw = 0
        /\ LET r == get_modbus_value_result(Top(t).typ, ok, raw) IN
           stack' = SetTop(t, [Top(t) EXCEPT
                  !.pc = "exit_address", !.val = r.val, !.num = r.num, !.raw = raw,
                  !.bits = IF r.val = "float"
                           THEN read_float(FloatPayload(raw, number_of_registers(Top(t).typ)),
                                           byteorder(Top(t).typ))
                           ELSE <<>>])
        /\ obs' = Failed(t, ok)
    /\ UNCHANGED <<config, resolved, legacy, battery, globals, clock, caches, ret, budget, setup>>

(* ---------------------------------------------------------------------- *)
(* get_field, get_cell_field                                               *)
(* ---------------------------------------------------------------------- *)
\* fielddata.array_size (line 371), modbusRegisterTable.offset (line 398):
\* attribute access on a dict raises
DictAttribute(attr) == "AttributeError"

\* lines 359-360, 386-387: mbdev = mbdevs[...]; self.get_modbus_version(self.address)
get_field_begin(t) ==
    /\ ~Idle(t)
    /\ Turn(t)
    /\ \/ Top(t).fn = "get_field" /\ Top(t).pc = "L359"
       \/ Top(t).fn = "get_cell_field" /\ Top(t).pc = "L386"
    /\ IF mbdevs[address[self[t]]] = None THEN Return(t, Exc("KeyError"))
       ELSE /\ stack' = Call(t, [Top(t) EXCEPT !.pc = "L360"],
                             Wrapped("get_modbus_version", "", address[self[t]], ""))
            /\ ret' = [ret EXCEPT ![t] = NoRet]
    /\ UNCHANGED <<config, resolved, legacy, battery, globals, clock, caches, budget, obs, setup>>

\* lines 362-371 and 389-398: table lookup, then the capability probe or the read
get_field_lookup(t) ==
    /\ ~Idle(t)
    /\ Turn(t)
    /\ Top(t).fn \in {"get_field", "get_cell_field"}
    /\ Top(t).pc = "L360"
    /\ ret[t].kind = "ret"
    /\ LET fr == Top(t)
           tables == IF fr.fn = "get_field" THEN IROCK_MODBUS_REGISTERS
                     ELSE IROCK_MODBUS_CELL_REGISTERS
           r == ScanTables(tables, 1, ret[t].ver, fr.name)
       IN CASE r.kind \in {"AttributeError", "KeyError"} -> Return(t, Exc(r.kind))
            [] r.kind = "notfound" -> Return(t, RetVal("False"))
            [] r.kind = "found" ->
                 LET fielddata == tables[r.table].register[r.index] IN
                 IF fielddata.hardware_support_register # None
                 THEN /\ stack' = Call(t, [fr EXCEPT !.pc = "L368"],
                                       Wrapped("get_modbus_hw_support", "",
                                               fielddata.hardware_support_register, ""))
                      /\ ret' = [ret EXCEPT ![t] = NoRet]
                 ELSE Return(t, Exc(DictAttribute(IF fr.fn = "get_field" THEN "array_size"
                                                  ELSE "offset")))
    /\ UNCHANGED <<config, resolved, legacy, battery, globals, clock, caches, budget, obs, setup>>

\* lines 368-371 and 395-398: a denied probe returns False, else the read is prepared
get_field_gate(t) ==
    /\ ~Idle(t)
    /\ Turn(t)
    /\ Top(t).fn \in {"get_field", "get_cell_field"}
    /\ Top(t).pc = "L368"
    /\ ret[t].kind = "ret"
    /\ IF ret[t].val = "False" THEN Return(t, RetVal("False"))
       ELSE Return(t, Exc(DictAttribute(IF Top(t).fn = "get_field" THEN "array_size"
                                        ELSE "offset")))
    /\ UNCHANGED <<config, resolved, legacy, battery, globals, clock, caches, budget, obs, setup>>

\* an exception leaves every frame that has no handler around the call
Propagate(t) ==
    /\ ~Idle(t)
    /\ Turn(t)
    /\ ret[t].kind = "exc"
    /\ ~(Top(t).fn = "test_connection" /\ Top(t).pc \in {"L153", "L157"})
    /\ stack' = Pop(t)
    /\ UNCHANGED <<config, resolved, legacy, battery, globals, clock, caches, ret, budget, obs,
                   setup>>

(* ---------------------------------------------------------------------- *)
(* test_connection                                                         *)
(* ---------------------------------------------------------------------- *)
\* line 133: if self.port not in port_locks
test_connection_check_port(t) ==
    /\ At(t, "test_connection", "L133")
    /\ Turn(t)
    /\ stack' = SetTop(t, [Top(t) EXCEPT !.pc = IF port_locks[port[self[t]]] = NoLock
                                                 THEN "L134" ELSE "L135"])
    /\ UNCHANGED <<config, resolved, legacy, battery, globals, clock, caches, ret, budget, obs,
                   setup>>

\* line 134: port_locks[self.port] = threading.Lock()
test_connection_new_port_lock(t) ==
    /\ At(t, "test_connection", "L134")
    /\ Turn(t)
    /\ LET lk == <<"port", port[self[t]], t>> IN
       /\ port_locks' = [port_locks EXCEPT ![port[self[t]]] = lk]
       /\ holder' = holder @@ (lk :> 0)
    /\ stack' = SetTop(t, [Top(t) EXCEPT !.pc = "L135"])
    /\ UNCHANGED <<config, resolved, legacy, battery, address_locks, mbdevs, clock, caches, ret,
                   budget, obs, setup>>

\* line 135: if self.address not in address_locks
test_connection_check_address(t) ==
    /\ At(t, "test_connection", "L135")
    /\ Turn(t)
    /\ IF address_locks[address[self[t]]] = NoLock
       THEN /\ stack' = SetTop(t, [Top(t) EXCEPT !.pc = "L136"])
            /\ setup' = setup
       ELSE /\ stack' = SetTop(t, [Top(t) EXCEPT !.pc = "with_port"])
            /\ setup' = setup \cup {self[t]}
    /\ UNCHANGED <<config, resolved, legacy, battery, globals, clock, caches, ret, budget, obs>>

\* line 136: address_locks[self.address] = threading.Lock()
test_connection_new_address_lock(t) ==
    /\ At(t, "test_connection", "L136")
    /\ Turn(t)
    /\ LET lk == <<"address", address[self[t]], t>> IN
       /\ address_locks' = [address_locks EXCEPT ![address[self[t]]] = lk]
       /\ holder' = holder @@ (lk :> 0)
    /\ stack' = SetTop(t, [Top(t) EXCEPT !.pc = "with_port"])
    /\ setup' = setup \cup {self[t]}
    /\ UNCHANGED <<config, resolved, legacy, battery, port_locks, mbdevs, clock, caches, ret,
                   budget, obs>>

\* lines 139-150: the Instrument is opened on self.port and stored under the
\* address; opening the serial port may raise
test_connection_instrument(t) ==
    /\ At(t, "test_connection", "body")
    /\ Turn(t)
    /\ \E ok \in BOOLEAN :
        IF ok
        THEN /\ mbdevs' = [mbdevs EXCEPT ![address[self[t]]] = port[self[t]]]
             /\ resolved' = [resolved EXCEPT ![address[self[t]]] = NoVersion]
             /\ stack' = SetTop(t, [Top(t) EXCEPT !.pc = "exit_address"])
        ELSE /\ UNCHANGED <<mbdevs, resolved>>
             /\ stack' = SetTop(t, [Top(t) EXCEPT !.pc = "exit_address",
                                             !.exc = "SerialException", !.acc = "True"])
    /\ UNCHANGED <<config, legacy, battery, port_locks, address_locks, holder, clock, caches, ret,
                   budget, obs, setup>>

\* lines 152 and 156: found = self.get_field(..., found), found is True at line 132
test_connection_identify(t) ==
    /\ ~Idle(t) /\ Top(t).fn = "test_connection" /\ Top(t).pc \in {"L152", "L156"}
    /\ Turn(t)
    /\ LET fr == Top(t)
           found == IF fr.pc = "L152" THEN "True" ELSE fr.acc
       IN stack' = Call(t, [fr EXCEPT !.pc = IF fr.pc = "L152" THEN "L153" ELSE "L157",
                                      !.acc = found],
                        Wrapped("get_field",
                                IF fr.pc = "L152" THEN "hardware_name" ELSE "hardware_version",
                                None, found))
    /\ ret' = [ret EXCEPT ![t] = NoRet]
    /\ UNCHANGED <<config, resolved, legacy, battery, globals, clock, caches, budget, obs, setup>>

\* lines 152-159: the result is assigned to found; an exception is caught
\* ("except Exception as e", kept in the frame's exc) and leaves found as it was
test_connection_identified(t) ==
    /\ ~Idle(t) /\ Top(t).fn = "test_connection" /\ Top(t).pc \in {"L153", "L157"}
    /\ Turn(t)
    /\ ret[t].kind \in {"ret", "exc"}
    /\ LET fr == Top(t) IN
       stack' = SetTop(t, IF ret[t].kind = "exc" THEN [fr EXCEPT !.pc = "L161", !.exc = ret[t].val]
                          ELSE [fr EXCEPT !.acc = ret[t].val,
                                          !.pc = IF fr.pc = "L153" THEN "L156" ELSE "L161"])
    /\ ret' = [ret EXCEPT ![t] = NoRet]
    /\ UNCHANGED <<config, resolved, legacy, battery, globals, clock, caches, budget, obs, setup>>

\* lines 161-168: return found and self.get_settings() and self.refresh_data()
test_connection_finish(t) ==
    /\ ~Idle(t) /\ Top(t).fn = "test_connection"
    /\ Turn(t)
    /\ LET fr == Top(t) IN
       \/ /\ fr.pc = "L161"
          /\ IF fr.acc = "False" THEN Return(t, RetVal("False"))
             ELSE /\ stack' = Call(t, [fr EXCEPT !.pc = "L166"],
                                   [Frame("get_settings", "call") EXCEPT !.n = 1, !.acc = "True"])
                  /\ ret' = [ret EXCEPT ![t] = NoRet]
       \/ /\ fr.pc = "L166"
          /\ ret[t].kind = "ret"
          /\ IF ret[t].val = "False" THEN Return(t, RetVal("False"))
             ELSE /\ stack' = Call(t, [fr EXCEPT !.pc = "L167"], Frame("refresh_data", "L208"))
                  /\ ret' = [ret EXCEPT ![t] = NoRet]
       \/ /\ fr.pc = "L167"
          /\ ret[t].kind = "ret"
          /\ Return(t, ret[t])
    /\ UNCHANGED <<config, resolved, legacy, battery, globals, clock, caches, budget, obs, setup>>

(* ---------------------------------------------------------------------- *)
(* Passes: get_settings, read_status_data, read_cell_data, refresh_data    *)
(* ---------------------------------------------------------------------- *)
Passes == {"get_settings", "read_status_data", "read_cell_data"}

\* the names of the mandatory block and of the optional block, in call order
MandatoryFields(fn) ==
    IF fn = "get_settings" THEN <<"cell_count", "capacity">>
    ELSE <<"voltage", "current", "soc", "soh", "temperature_1", "charge_fet", "discharge_fet">>

OptionalFields(fn) ==
    IF fn = "get_settings"
    THEN <<"max_battery_charge_current", "max_battery_discharge_current", "custom_field",
           "max_battery_voltage_bms", "min_battery_voltage_bms", "production",
           "hardware_version", "hardware_name", "serial_number">>
    ELSE <<"capacity_remain", "temperature_2", "temperature_3", "temperature_4",
           "temperature_mos", "balance_fet", "protection.high_voltage",
           "protection.high_cell_voltage", "protection.low_voltage",
           "protection.low_cell_voltage", "protection.low_soc",
           "protection.high_charge_current", "protection.high_discharge_current",
           "protection.cell_imbalance", "protection.internal_failure",
           "protection.high_charge_temperature", "protection.low_charge_temperature",
           "protection.high_temperature", "protection.low_temperature",
           "protection.high_internal_temperature", "protection.fuse_blown",
           "history.deepest_discharge", "history.last_discharge",
           "history.average_discharge", "history.charge_cycles", "history.full_discharges",
           "history.total_ah_drawn", "history.minimum_voltage", "history.maximum_voltage",
           "history.minimum_cell_voltage", "history.maximum_cell_voltage",
           "history.timestamp_last_full_charge", "history.low_voltage_alarms",
           "history.high_voltage_alarms", "history.minimum_temperature",
           "history.maximum_temperature", "history.discharged_energy",
           "history.charged_energy">>

\* number of calls in the mandatory block of pass fn (cc: self.cell_count)
Mandatory(fn, cc) == IF fn = "read_cell_data" THEN cc ELSE Len(MandatoryFields(fn))

\* the calls of pass fn in order: the cached function, the name and the cell
PassCalls(fn, cc) ==
    IF fn = "read_cell_data"
    THEN [i \in 1..(2 * cc) |->
            IF i <= cc THEN [name |-> "voltage", n |-> i - 1, f |-> "get_cell_field"]
            ELSE [name |-> "balance", n |-> i - cc - 1, f |-> "get_cell_field"]]
    ELSE [i \in 1..(Len(MandatoryFields(fn)) + Len(OptionalFields(fn))) |->
            [name |-> (MandatoryFields(fn) \o OptionalFields(fn))[i], n |-> None,
             f |-> "get_field"]]

\* One step of a pass: the result of the call before is assigned to answer, then
\* the next statement runs: "if not answer: return False" after the mandatory
\* block, the next call, or the end of the pass.  range(self.cell_count) raises
\* TypeError for None.
pass_step(t) ==
    /\ ~Idle(t)
    /\ Turn(t)
    /\ Top(t).fn \in Passes
    /\ Top(t).pc = "call" \/ (Top(t).pc = "await" /\ ret[t].kind = "ret")
    /\ LET fr == Top(t)
           d == self[t]
           answer == IF fr.pc = "await" THEN ret[t].val ELSE fr.acc
           i == IF fr.pc = "await" THEN fr.n + 1 ELSE fr.n
       IN IF fr.fn = "read_cell_data" /\ cell_count[d] = None
          THEN Return(t, Exc("TypeError")) /\ UNCHANGED battery
          ELSE LET cc == IF cell_count[d] = None THEN 0 ELSE cell_count[d]
                   calls == PassCalls(fr.fn, cc)
               IN IF i = Mandatory(fr.fn, cc) + 1 /\ answer = "False"
                  THEN Return(t, RetVal("False")) /\ UNCHANGED battery
                  ELSE IF i <= Len(calls)
                  THEN /\ stack' = Call(t, [fr EXCEPT !.pc = "await", !.n = i, !.acc = answer],
                                        Wrapped(calls[i].f, calls[i].name, calls[i].n, answer))
                       /\ ret' = [ret EXCEPT ![t] = NoRet]
                       /\ UNCHANGED battery
                  ELSE IF fr.fn = "get_settings" /\ cells[d] = 0
                  THEN \* lines 199-201
                       IF cell_count[d] = None
                       THEN Return(t, Exc("TypeError")) /\ UNCHANGED battery
                       ELSE /\ Return(t, RetVal("True"))
                            /\ cells' = [cells EXCEPT ![d] = cell_count[d]]
                            /\ cell_count' = cell_count
                  ELSE Return(t, RetVal("True")) /\ UNCHANGED battery
    /\ UNCHANGED <<config, resolved, legacy, globals, clock, caches, budget, obs, setup>>

\* lines 208-210: result = read_status_data(); result = result and read_cell_data()
refresh_data_step(t) ==
    /\ ~Idle(t) /\ Top(t).fn = "refresh_data"
    /\ Turn(t)
    /\ LET fr == Top(t) IN
       \/ /\ fr.pc = "L208"
          /\ stack' = Call(t, [fr EXCEPT !.pc = "L209"],
                           [Frame("read_status_data", "call") EXCEPT !.n = 1, !.acc = "True"])
          /\ ret' = [ret EXCEPT ![t] = NoRet]
       \/ /\ fr.pc = "L209"
          /\ ret[t].kind = "ret"
          /\ IF ret[t].val = "False" THEN Return(t, RetVal("False"))
             ELSE /\ stack' = Call(t, [fr EXCEPT !.pc = "L210"],
                                   [Frame("read_cell_data", "call") EXCEPT !.n = 1, !.acc = "True"])
                  /\ ret' = [ret EXCEPT ![t] = NoRet]
       \/ /\ fr.pc = "L210"
          /\ ret[t].kind = "ret"
          /\ Return(t, ret[t])
    /\ UNCHANGED <<config, resolved, legacy, battery, globals, clock, caches, budget, obs, setup>>

\* lines 174-175: self.get_field("serial_number"); return self.serial_number
unique_identifier_step(t) ==
    /\ ~Idle(t) /\ Top(t).fn = "unique_identifier"
    /\ Turn(t)
    /\ \/ /\ Top(t).pc = "L174"
          /\ stack' = Call(t, [Top(t) EXCEPT !.pc = "L175"],
                           Wrapped("get_field", "serial_number", None, "default"))
          /\ ret' = [ret EXCEPT ![t] = NoRet]
       \/ /\ Top(t).pc = "L175"
          /\ ret[t].kind = "ret"
          /\ Return(t, RetVal("None"))
    /\ UNCHANGED <<config, resolved, legacy, battery, globals, clock, caches, budget, obs, setup>>

(* ---------------------------------------------------------------------- *)
(* Legacy driver (etc/dbus-serialbattery/bms/irock.py)                     *)
(* Every function is a sequence of with-blocks on locks[self.address]; a   *)
(* frame's n is the block, num the number of reads done in it.  The pcs    *)
(* are mbdevs, version, with, body, io, exit and the line labels.          *)
(* ---------------------------------------------------------------------- *)
\* the transport reads of each with-block, for protocol 1.0.0 (cc: self.cell_count)
LegacyReads(fn, cc) ==
    CASE fn = "etc.test_connection" -> <<2>>
      [] fn = "etc.unique_identifier" -> <<1>>
      [] fn = "etc.get_settings" -> <<2, 5>>
      [] fn = "etc.read_status_data" -> <<7>>
      [] fn = "etc.read_cell_data" -> <<2 * cc>>
      [] fn = "etc.get_modbus_version" -> <<1>>

\* the k-th read of with-block n of function fn is a read_float (lines 154,
\* 198-199, 279-285, 435)
LegacyFloat(fn, n, k) ==
    CASE fn = "etc.get_settings" -> (n = 1 /\ k = 2) \/ (n = 2 /\ k \in {1, 2})
      [] fn = "etc.read_status_data" -> TRUE
      [] fn = "etc.read_cell_data" -> k % 2 = 1
      [] OTHER -> FALSE

\* the register the legacy driver reads for a field, named as the catalog
\* names it (lines 81-82, 117, 153-154, 198-202, 279-285); for cell c >= 0
\* the register of the cell's voltage or balance (lines 435-436)
legacy_register(name, c) ==
    IF c # None THEN (IF name = "voltage" THEN 64 + c * 4 ELSE 66 + c * 4)
    ELSE CASE name = "hardware_name" -> 9
           [] name = "hardware_version" -> 17
           [] name = "serial_number" -> 21
           [] name = "cell_count" -> 35
           [] name = "capacity" -> 36
           [] name = "voltage" -> 38
           [] name = "current" -> 40
           [] name = "soc" -> 42
           [] name = "max_battery_charge_current" -> 46
           [] name = "max_battery_discharge_current" -> 48
           [] name = "temp1" -> 54
           [] name = "temp2" -> 56
           [] name = "temp3" -> 58
           [] name = "temp4" -> 60

\* lines 473-478: the coerced version, None (implicitly) after an exception
legacy_get_modbus_version_result(ok, raw) == IF ok THEN VersionCoerce(raw) ELSE NoVersion

call_legacy(t, d, fn) ==
    Begin(t, d, [Frame(fn, CASE fn = "etc.test_connection" -> "L57"
                             [] fn = "etc.refresh_data" -> "L238"
                             [] OTHER -> "mbdevs") EXCEPT !.n = 1, !.acc = "False"],
          [NoObs EXCEPT !.op = fn])

\* line 57: if address not in locks
legacy_test_connection_check(t) ==
    /\ At(t, "etc.test_connection", "L57")
    /\ Turn(t)
    /\ stack' = SetTop(t, [Top(t) EXCEPT !.n = 0,
                                         !.pc = IF locks[address[self[t]]] = NoLock
                                                THEN "L58" ELSE "with"])
    /\ setup' = IF locks[address[self[t]]] = NoLock THEN setup ELSE setup \cup {self[t]}
    /\ UNCHANGED <<config, resolved, legacy, battery, globals, clock, caches, ret, budget, obs>>

\* line 58: locks[address] = threading.Lock()
legacy_test_connection_new_lock(t) ==
    /\ At(t, "etc.test_connection", "L58")
    /\ Turn(t)
    /\ LET lk == <<"address", address[self[t]], t>> IN
       /\ locks' = [locks EXCEPT ![address[self[t]]] = lk]
       /\ holder' = holder @@ (lk :> 0)
    /\ stack' = SetTop(t, [Top(t) EXCEPT !.pc = "with"])
    /\ setup' = setup \cup {self[t]}
    /\ UNCHANGED <<config, resolved, battery, port_locks, address_locks, mbdevs, clock, caches, ret,
                   budget, obs, lttjdb, protection>>

\* mbdev = mbdevs[address] (KeyError), then modbus_version = self.get_modbus_version()
legacy_lookup(t) ==
    /\ ~Idle(t) /\ Top(t).fn \in LegacyFunctions /\ Top(t).pc = "mbdevs"
    /\ Turn(t)
    /\ LET fr == Top(t)
           dev == mbdevs[address[self[t]]]
       IN IF dev = None THEN Return(t, Exc("KeyError"))
          ELSE IF fr.fn = "etc.get_modbus_version"
          THEN /\ stack' = SetTop(t, [fr EXCEPT !.pc = "with", !.ioport = dev])
               /\ ret' = ret
          ELSE /\ stack' = Call(t, [fr EXCEPT !.pc = "version", !.ioport = dev],
                                [Frame("etc.get_modbus_version", "mbdevs") EXCEPT !.n = 1])
               /\ ret' = [ret EXCEPT ![t] = NoRet]
    /\ UNCHANGED <<config, resolved, legacy, battery, globals, clock, caches, budget, obs, setup>>

\* the version is back: the next with-block is entered
legacy_version_returned(t) ==
    /\ ~Idle(t) /\ Top(t).fn \in LegacyFunctions /\ Top(t).pc = "version"
    /\ Turn(t)
    /\ ret[t].kind = "ret"
    /\ stack' = SetTop(t, [Top(t) EXCEPT !.pc = "with", !.n = 1, !.num = 0, !.ver = ret[t].ver])
    /\ ret' = [ret EXCEPT ![t] = NoRet]
    /\ UNCHANGED <<config, resolved, legacy, battery, globals, clock, caches, budget, obs, setup>>

\* the with-block is entered whether or not the lock is free
legacy_acquire_unchecked(t) ==
    /\ ~Idle(t) /\ Top(t).fn \in LegacyFunctions /\ Top(t).pc = "with"
    /\ Turn(t)
    /\ LET lk == locks[address[self[t]]] IN
       /\ lk # NoLock
       /\ holder' = [holder EXCEPT ![lk] = t]
       /\ stack' = SetTop(t, [Top(t) EXCEPT !.pc = "body", !.alock = lk])
    /\ UNCHANGED <<config, resolved, legacy, battery, port_locks, address_locks, mbdevs, clock,
                   caches, ret, budget, obs, setup>>

\* with locks[address]:
legacy_acquire(t) ==
    /\ ~Idle(t) /\ Top(t).fn \in LegacyFunctions /\ Top(t).pc = "with"
    /\ Turn(t)
    /\ LET lk == locks[address[self[t]]] IN
       /\ lk # NoLock
       /\ holder[lk] = 0
       /\ holder' = [holder EXCEPT ![lk] = t]
       /\ stack' = SetTop(t, [Top(t) EXCEPT !.pc = "body", !.alock = lk])
    /\ UNCHANGED <<config, resolved, legacy, battery, port_locks, address_locks, mbdevs, clock,
                   caches, ret, budget, obs, setup>>

\* lines 62-73: the Instrument is opened and stored; opening may raise
legacy_instrument(t) ==
    /\ At(t, "etc.test_connection", "body")
    /\ Turn(t)
    /\ Top(t).n = 0
    /\ \E ok \in BOOLEAN :
        IF ok
        THEN /\ mbdevs' = [mbdevs EXCEPT ![address[self[t]]] = port[self[t]]]
             /\ resolved' = [resolved EXCEPT ![address[self[t]]] = NoVersion]
             /\ stack' = SetTop(t, [Top(t) EXCEPT !.pc = "exit", !.ioport = port[self[t]]])
        ELSE /\ UNCHANGED <<mbdevs, resolved>>
             /\ stack' = SetTop(t, [Top(t) EXCEPT !.pc = "exit", !.exc = "SerialException"])
    /\ UNCHANGED <<config, legacy, battery, port_locks, address_locks, holder, clock, caches, ret,
                   budget, obs, setup>>

\* The body of a with-block: the next read goes out, or the block ends: the
\* else-branch of "if modbus_version == Version('1.0.0')" (return False; in
\* test_connection found stays False), range(None) in read_cell_data
\* (TypeError, caught: return False), or all reads done (lines 158, 83:
\* self.cell_count = cell_count, found = True).
legacy_block(t) ==
    /\ ~Idle(t) /\ Top(t).fn \in LegacyFunctions /\ Top(t).pc = "body"
    /\ Turn(t)
    /\ ~(Top(t).fn = "etc.test_connection" /\ Top(t).n = 0)
    /\ LET fr == Top(t)
           d == self[t]
           versioned == fr.fn # "etc.get_modbus_version"
           cc == IF cell_count[d] = None THEN 0 ELSE cell_count[d]
           total == LegacyReads(fr.fn, cc)[fr.n]
           leave(v, a) == /\ stack' = SetTop(t, [fr EXCEPT !.pc = "exit", !.val = v, !.acc = a])
                          /\ UNCHANGED <<obs, battery>>
       IN IF versioned /\ fr.ver # <<1, 0, 0>>
          THEN leave(IF fr.fn \in {"etc.test_connection", "etc.unique_identifier"}
                     THEN "" ELSE "False", fr.acc)
          ELSE IF fr.fn = "etc.read_cell_data" /\ cell_count[d] = None
          THEN leave("False", fr.acc)
          ELSE IF fr.num < total
          THEN /\ stack' = SetTop(t, [fr EXCEPT !.pc = "io"])
               /\ obs' = [obs EXCEPT ![t].reads = @ + 1]
               /\ UNCHANGED battery
          ELSE /\ stack' = SetTop(t, [fr EXCEPT !.pc = "exit", !.acc = "True"])
               /\ cell_count' = IF fr.fn = "etc.get_settings" /\ fr.n = 1
                                THEN [cell_count EXCEPT ![d] = fr.raw] ELSE cell_count
               /\ UNCHANGED <<obs, cells>>
    /\ UNCHANGED <<config, resolved, legacy, globals, clock, caches, ret, budget, setup>>

\* a read answers or raises; every except-clause ends the block (return False,
\* in get_modbus_version None, in test_connection and unique_identifier go on)
legacy_read_returns(t) ==
    /\ ~Idle(t) /\ Top(t).fn \in LegacyFunctions /\ Top(t).pc = "io"
    /\ Turn(t)
    /\ LET fr == Top(t) IN
       \E ok \in BOOLEAN : \E raw \in RegisterAnswers :
        /\ (ok /\ fr.fn = "etc.get_settings" /\ fr.n = 1 /\ fr.num = 0) \/ raw = 0
        /\ obs' = Failed(t, ok)
        /\ resolved' = IF fr.fn = "etc.get_modbus_version"
                       THEN Resolve(address[self[t]],
                                    legacy_get_modbus_version_result(
                                        ok, firmware[<<fr.ioport, address[self[t]]>>]))
                       ELSE resolved
        /\ stack' = SetTop(t,
             IF fr.fn = "etc.get_modbus_version"
             THEN [fr EXCEPT !.pc = "exit", !.num = 1,
                             !.ver = legacy_get_modbus_version_result(
                                         ok, firmware[<<fr.ioport, address[self[t]]>>])]
             ELSE IF ok
             THEN [fr EXCEPT !.pc = "body", !.num = @ + 1,
                             !.raw = IF fr.fn = "etc.get_settings" /\ fr.n = 1 /\ fr.num = 0
                                     THEN raw ELSE @,
                             !.bits = IF LegacyFloat(fr.fn, fr.n, fr.num + 1)
                                      THEN read_float(FloatPayload(raw, 2), legacy_byteorder)
                                      ELSE @]
             ELSE [fr EXCEPT !.pc = "exit",
                             !.val = IF fr.fn \in {"etc.test_connection", "etc.unique_identifier"}
                                     THEN "" ELSE "False"])
    /\ UNCHANGED <<config, legacy, battery, globals, clock, caches, ret, budget, setup>>

\* the with-block is left: the lock is released, then the function goes on
legacy_release(t) ==
    /\ ~Idle(t) /\ Top(t).fn \in LegacyFunctions /\ Top(t).pc = "exit"
    /\ Turn(t)
    /\ holder' = [holder EXCEPT ![Top(t).alock] = 0]
    /\ LET fr == [Top(t) EXCEPT !.alock = NoLock]
           d == self[t]
           cc == IF cell_count[d] = None THEN 0 ELSE cell_count[d]
       IN CASE fr.exc # "" -> Return(t, Exc(fr.exc)) /\ UNCHANGED cells
            [] fr.exc = "" /\ fr.fn = "etc.get_modbus_version" ->
                 Return(t, RetVer(fr.ver)) /\ UNCHANGED cells
            [] fr.exc = "" /\ fr.fn = "etc.test_connection" ->
                 /\ UNCHANGED cells
                 /\ IF fr.n = 0
                    THEN /\ stack' = Call(t, [fr EXCEPT !.pc = "version"],
                                          [Frame("etc.get_modbus_version", "mbdevs")
                                             EXCEPT !.n = 1])
                         /\ ret' = [ret EXCEPT ![t] = NoRet]
                    ELSE /\ stack' = SetTop(t, [fr EXCEPT !.pc = "L96"])
                         /\ ret' = ret
            [] fr.exc = "" /\ fr.fn = "etc.unique_identifier" ->
                 \* line 120 returns inside the block; else self.serial_number (None)
                 Return(t, RetVal(IF fr.acc = "True" THEN "serial_number" ELSE "None"))
                 /\ UNCHANGED cells
            [] fr.exc = "" /\ fr.fn \in {"etc.get_settings", "etc.read_status_data",
                                         "etc.read_cell_data"} ->
                 IF fr.val = "False" THEN Return(t, RetVal("False")) /\ UNCHANGED cells
                 ELSE IF fr.n < Len(LegacyReads(fr.fn, cc))
                 THEN /\ stack' = SetTop(t, [fr EXCEPT !.pc = "with", !.n = @ + 1, !.num = 0])
                      /\ ret' = ret
                      /\ UNCHANGED cells
                 ELSE \* lines 227-231: the cell array is initialised once
                      /\ Return(t, RetVal("True"))
                      /\ cells' = IF fr.fn = "etc.get_settings" /\ cells[d] = 0
                                  THEN [cells EXCEPT ![d] = cc] ELSE cells
    /\ UNCHANGED <<config, resolved, legacy, cell_count, port_locks, address_locks, mbdevs, clock,
                   caches, budget, obs, setup>>

\* lines 96-103: return found and self.get_settings() and self.refresh_data()
legacy_test_connection_finish(t) ==
    /\ ~Idle(t) /\ Top(t).fn = "etc.test_connection"
    /\ Turn(t)
    /\ LET fr == Top(t) IN
       \/ /\ fr.pc = "L96"
          /\ IF fr.acc = "False" THEN Return(t, RetVal("False"))
             ELSE /\ stack' = Call(t, [fr EXCEPT !.pc = "L101"],
                                   [Frame("etc.get_settings", "mbdevs") EXCEPT !.n = 1])
                  /\ ret' = [ret EXCEPT ![t] = NoRet]
       \/ /\ fr.pc = "L101"
          /\ ret[t].kind = "ret"
          /\ IF ret[t].val = "False" THEN Return(t, RetVal("False"))
             ELSE /\ stack' = Call(t, [fr EXCEPT !.pc = "L102"], Frame("etc.refresh_data", "L238"))
                  /\ ret' = [ret EXCEPT ![t] = NoRet]
       \/ /\ fr.pc = "L102"
          /\ ret[t].kind = "ret"
          /\ Return(t, ret[t])
    /\ UNCHANGED <<config, resolved, legacy, battery, globals, clock, caches, budget, obs, setup>>

\* refresh_data without the short circuit of line 241: the cell pass runs
\* whatever the status pass returned
legacy_refresh_data_step_both(t) ==
    /\ ~Idle(t) /\ Top(t).fn = "etc.refresh_data"
    /\ Turn(t)
    /\ LET fr == Top(t) IN
       \/ /\ fr.pc = "L238"
          /\ stack' = Call(t, [fr EXCEPT !.pc = "L241"],
                           [Frame("etc.read_status_data", "mbdevs") EXCEPT !.n = 1])
          /\ ret' = [ret EXCEPT ![t] = NoRet]
       \/ /\ fr.pc = "L241"
          /\ ret[t].kind = "ret"
          /\ stack' = Call(t, [fr EXCEPT !.pc = "L247"],
                           [Frame("etc.read_cell_data", "mbdevs") EXCEPT !.n = 1])
          /\ ret' = [ret EXCEPT ![t] = NoRet]
       \/ /\ fr.pc = "L247"
          /\ ret[t].kind = "ret"
          /\ Return(t, ret[t])
    /\ UNCHANGED <<config, resolved, legacy, battery, globals, clock, caches, budget, obs, setup>>

\* lines 238-247: result = read_status_data(); result = result and read_cell_data()
legacy_refresh_data_step(t) ==
    /\ ~Idle(t) /\ Top(t).fn = "etc.refresh_data"
    /\ Turn(t)
    /\ LET fr == Top(t) IN
       \/ /\ fr.pc = "L238"
          /\ stack' = Call(t, [fr EXCEPT !.pc = "L241"],
                           [Frame("etc.read_status_data", "mbdevs") EXCEPT !.n = 1])
          /\ ret' = [ret EXCEPT ![t] = NoRet]
       \/ /\ fr.pc = "L241"
          /\ ret[t].kind = "ret"
          /\ IF ret[t].val = "False" THEN Return(t, RetVal("False"))
             ELSE /\ stack' = Call(t, [fr EXCEPT !.pc = "L247"],
                                   [Frame("etc.read_cell_data", "mbdevs") EXCEPT !.n = 1])
                  /\ ret' = [ret EXCEPT ![t] = NoRet]
       \/ /\ fr.pc = "L247"
          /\ ret[t].kind = "ret"
          /\ Return(t, ret[t])
    /\ UNCHANGED <<config, resolved, legacy, battery, globals, clock, caches, budget, obs, setup>>

(* ---------------------------------------------------------------------- *)
(* The LTT/JDB driver (etc/dbus-serialbattery/lttjdb.py)                   *)
(* ---------------------------------------------------------------------- *)
\* lines 17-20; a call of the name after to_protection_bits has stored a bool
\* under it (line 92) raises TypeError
set_voltage_high_cell(value) ==
    /\ lttjdb["ops"] < LttOps
    /\ protection' =
         IF protection["shadowed"] THEN protection
         ELSE [protection EXCEPT !["voltage_high_cell"] = value,
                                 !["cell_imbalance"] =
                                     IF protection["voltage_low_cell"] \/ value THEN 2 ELSE 0,
                                 !["calls"] = 1]
    /\ lttjdb' = [lttjdb EXCEPT !["op"] = "set_voltage_high_cell", !["ops"] = @ + 1,
                                !["ret"] = IF protection["shadowed"] THEN "TypeError" ELSE "None"]
    /\ UNCHANGED <<config, resolved, locks, battery, globals, clock, caches, stack, ret, budget,
                   obs, setup>>

\* lines 22-25; shadowed by line 91
set_voltage_low_cell(value) ==
    /\ lttjdb["ops"] < LttOps
    /\ protection' =
         IF protection["shadowed"] THEN protection
         ELSE [protection EXCEPT !["voltage_low_cell"] = value,
                                 !["cell_imbalance"] =
                                     IF value \/ protection["voltage_high_cell"] THEN 2 ELSE 0,
                                 !["calls"] = 1]
    /\ lttjdb' = [lttjdb EXCEPT !["op"] = "set_voltage_low_cell", !["ops"] = @ + 1,
                                !["ret"] = IF protection["shadowed"] THEN "TypeError" ELSE "None"]
    /\ UNCHANGED <<config, resolved, locks, battery, globals, clock, caches, stack, ret, budget,
                   obs, setup>>

\* lines 27-31; shadowed by line 95
set_short(value) ==
    /\ lttjdb["ops"] < LttOps
    /\ protection' =
         IF protection["shadowed"] THEN protection
         ELSE [protection EXCEPT !["short"] = value,
                                 !["cell_imbalance"] =
                                     IF value \/ protection["IC_inspection"]
                                              \/ protection["software_lock"] THEN 2 ELSE 0,
                                 !["calls"] = 1]
    /\ lttjdb' = [lttjdb EXCEPT !["op"] = "set_short", !["ops"] = @ + 1,
                                !["ret"] = IF protection["shadowed"] THEN "TypeError" ELSE "None"]
    /\ UNCHANGED <<config, resolved, locks, battery, globals, clock, caches, stack, ret, budget,
                   obs, setup>>

\* lines 33-37; line 94 stores under set_IC_inspection, another name
set_ic_inspection(value) ==
    /\ lttjdb["ops"] < LttOps
    /\ protection' =
         [protection EXCEPT !["IC_inspection"] = value,
                            !["cell_imbalance"] =
                                IF protection["short"] \/ value
                                                       \/ protection["software_lock"] THEN 2 ELSE 0,
                            !["calls"] = 1]
    /\ lttjdb' = [lttjdb EXCEPT !["op"] = "set_ic_inspection", !["ops"] = @ + 1,
                                !["ret"] = "None"]
    /\ UNCHANGED <<config, resolved, locks, battery, globals, clock, caches, stack, ret, budget,
                   obs, setup>>

\* lines 39-43; shadowed by line 93
set_software_lock(value) ==
    /\ lttjdb["ops"] < LttOps
    /\ protection' =
         IF protection["shadowed"] THEN protection
         ELSE [protection EXCEPT !["software_lock"] = value,
                                 !["cell_imbalance"] =
                                     IF protection["short"] \/ protection["IC_inspection"]
                                                            \/ value THEN 2 ELSE 0,
                                 !["calls"] = 1]
    /\ lttjdb' = [lttjdb EXCEPT !["op"] = "set_software_lock", !["ops"] = @ + 1,
                                !["ret"] = IF protection["shadowed"] THEN "TypeError" ELSE "None"]
    /\ UNCHANGED <<config, resolved, locks, battery, globals, clock, caches, stack, ret, budget,
                   obs, setup>>

\* lines 75-95: the levels of lines 78-88 are not modelled; lines 91-95 assign
\* the bits to attributes named set_voltage_low_cell, set_voltage_high_cell,
\* set_software_lock, set_IC_inspection and set_short of the protection
\* object: no setter is called and no flag changes
to_protection_bits(p, byte_data) == [p EXCEPT !["shadowed"] = TRUE]

\* lines 97-109: the list after to_cell_bits.  "for c in self.cells:
\* self.cells.remove(c)" advances its index over a list that shrinks, so every
\* second Cell stays; bin(x)[2:].rjust(w, "0") is at least w digits long and
\* longer when x has more significant digits; reversed: lowest bit first
to_cell_bits(cs, cc, byte_data, byte_data_high) ==
    LET digits(x) == IF x = 0 THEN 1 ELSE CHOOSE k \in 1..16 : 2 ^ (k - 1) <= x /\ x < 2 ^ k
        appended(x, w) ==
            LET n == IF digits(x) > w THEN digits(x) ELSE w
            IN [i \in 1..n |-> (x \div (2 ^ (i - 1))) % 2 = 1]
        kept == [i \in 1..(Len(cs) \div 2) |-> cs[2 * i]]
    IN kept \o appended(byte_data, IF cc < 16 THEN cc ELSE 16)
            \o (IF cc > 16 THEN appended(byte_data_high, cc - 16) ELSE <<>>)

\* lines 116-136: the object, the protection object and the value returned
\* for gen_data = <<balance, balance2, protection, cell_count>>, or <<>> for
\* False; the function has no return statement after a successful read
LttJdb_read_gen_data(lj, p, gen_data) ==
    IF gen_data = <<>> THEN <<lj, p, "False">>
    ELSE <<[lj EXCEPT !["cell_count"] = gen_data[4],
                      !["cells"] = to_cell_bits(lj["cells"], gen_data[4], gen_data[1], gen_data[2]),
                      !["balance"] = gen_data[1],
                      !["word"] = gen_data[3]],
           to_protection_bits(p, gen_data[3]),
           "None">>

\* lines 138-145: cell_data is the length of the payload in bytes, None for
\* False; range(None) and None * 2 raise TypeError
LttJdb_read_cell_data(lj, cell_data) ==
    IF cell_data = None THEN "False"
    ELSE IF lj["cell_count"] = None THEN "TypeError"
    ELSE IF cell_data < lj["cell_count"] * 2 THEN "False"
    ELSE "None"

\* lines 65-68: self.read_gen_data(); return True
LttJdb_get_settings ==
    /\ lttjdb["ops"] < LttOps
    /\ \E gen_data \in GenData :
         LET r == LttJdb_read_gen_data(lttjdb, protection, gen_data) IN
         /\ lttjdb' = [r[1] EXCEPT !["op"] = "get_settings", !["ret"] = "True",
                                   !["failed"] = r[3] = "False", !["gen_ok"] = r[3] = "None",
                                   !["ops"] = @ + 1]
         /\ protection' = r[2]
    /\ UNCHANGED <<config, resolved, locks, battery, globals, clock, caches, stack, ret, budget,
                   obs, setup>>

\* lines 70-73: self.read_gen_data(); self.read_cell_data(); return True
LttJdb_refresh_data ==
    /\ lttjdb["ops"] < LttOps
    /\ \E gen_data \in GenData :
       \E cell_data \in CellData :
         LET r == LttJdb_read_gen_data(lttjdb, protection, gen_data)
             c == LttJdb_read_cell_data(r[1], cell_data)
         IN
         /\ lttjdb' = [r[1] EXCEPT !["op"] = "refresh_data",
                                   !["ret"] = IF c = "TypeError" THEN c ELSE "True",
                                   !["failed"] = r[3] = "False" \/ c = "False",
                                   !["gen_ok"] = r[3] = "None",
                                   !["ops"] = @ + 1]
         /\ protection' = r[2]
    /\ UNCHANGED <<config, resolved, locks, battery, globals, clock, caches, stack, ret, budget,
                   obs, setup>>

(* ---------------------------------------------------------------------- *)
(* The clock                                                               *)
(* ---------------------------------------------------------------------- *)
Tick ==
    /\ ticks < MaxTicks
    /\ \A t \in Threads : Idle(t) \/ InFlight(t) \/ WaitsForLock(t)
    /\ \A t \in Threads : ~Urgent(t)
    /\ \E d \in TickSteps : now' = now + d
    /\ ticks' = ticks + 1
    /\ UNCHANGED <<config, resolved, legacy, battery, globals, caches, stack, ret, budget, obs,
                   setup>>

\* the device firmware is replaced: every device answers version to from now on
firmware_update(from, to) ==
    /\ \A x \in DOMAIN firmware : firmware[x] = from
    /\ \A t \in Threads : ~Urgent(t)
    /\ firmware' = [x \in DOMAIN firmware |-> to]
    /\ UNCHANGED <<self, port, address, driver, resolved, legacy, battery, globals, clock,
                   caches, stack, ret, budget, obs, setup>>

(* ---------------------------------------------------------------------- *)
(* Initial states                                                          *)
(* ---------------------------------------------------------------------- *)
\* line 113, super().__init__(port, baud, address): the base class Battery leaves
\* lttjdb.py lines 9-15: the flags of a new LttJdbProtection; cell_imbalance
\* is unset; shadowed: to_protection_bits has stored a value under the name of
\* a setter method; calls: setter calls that ran so far
LttJdbProtection ==
    ("voltage_high_cell" :> FALSE @@ "voltage_low_cell" :> FALSE @@ "short" :> FALSE
     @@ "IC_inspection" :> FALSE @@ "software_lock" :> FALSE @@ "cell_imbalance" :> None
     @@ "shadowed" :> FALSE @@ "calls" :> 0)

\* lttjdb.py lines 48-50: a new LttJdb has no cells and no cell_count.  The
\* other entries record the last operation: its name, what it returned, whether
\* a serial read of it failed, whether its read_gen_data succeeded, and the
\* balance and protection words that read_gen_data unpacked (None: none yet).
LttJdb ==
    ("cell_count" :> None @@ "cells" :> <<>> @@ "op" :> "" @@ "ret" :> "" @@ "failed" :> FALSE
     @@ "gen_ok" :> FALSE @@ "balance" :> None @@ "word" :> None @@ "ops" :> 0)

\* cell_count unset (None) or set; both are considered
InitialCellCounts == {None, 1}

\* every device runs the same firmware, one of vs
Uniform(vs) == {[x \in Ports \X Addresses |-> v] : v \in vs}

\* state after the module is imported and the objects are constructed;
\* object 1 is on port 1 with address 1, object 2 on port p with address a
Constructed(p, a, Firmwares, counts, ops, drv) ==
    /\ self = [t \in Threads |-> t]
    /\ port = (1 :> 1 @@ 2 :> p)
    /\ address = (1 :> 1 @@ 2 :> a)
    /\ port_locks = [q \in Ports |-> NoLock]
    /\ address_locks = [b \in Addresses |-> NoLock]
    /\ mbdevs = [b \in Addresses |-> None]
    /\ holder = <<>>
    /\ stack = [t \in Threads |-> <<>>]
    /\ ret = [t \in Threads |-> NoRet]
    /\ now = 0
    /\ ticks = 0
    /\ cache = [f \in CachedFunctions |-> {}]
    /\ expiration = [f \in CachedFunctions |-> lifetime(f)]
    /\ budget = ops
    /\ obs = [t \in Threads |-> NoObs]
    /\ setup = {}
    /\ cell_count \in {[d \in Devices |-> cc] : cc \in counts}
    /\ cells = [d \in Devices |-> 0]
    /\ firmware \in Firmwares
    /\ driver = drv
    /\ locks = [b \in Addresses |-> NoLock]
    /\ lttjdb = LttJdb
    /\ protection = LttJdbProtection
    /\ resolved = [b \in Addresses |-> NoVersion]

(* ---------------------------------------------------------------------- *)
(* Specifications                                                          *)
(* ---------------------------------------------------------------------- *)
CacheSteps(t) ==
    \/ wrapped_func_expire(t)
    \/ wrapped_func_call(t)
    \/ wrapped_func_store(t)
    \/ wrapped_func_hit(t)

LockSteps(t) ==
    \/ AcquirePortLock(t)
    \/ AcquireAddressLock(t)
    \/ ReleaseAddressLock(t)
    \/ ReleasePortLock(t)

TransportSteps(t) ==
    \/ transport_function_begin(t)
    \/ transport_call(t)
    \/ read_string_returns(t)
    \/ read_bit_returns(t)

ValueSteps(t) ==
    \/ get_modbus_value_unsupported(t)
    \/ read_register_returns(t)

LegacySteps(t) ==
    \/ legacy_test_connection_check(t)
    \/ legacy_test_connection_new_lock(t)
    \/ legacy_lookup(t)
    \/ legacy_version_returned(t)
    \/ legacy_acquire(t)
    \/ legacy_instrument(t)
    \/ legacy_block(t)
    \/ legacy_read_returns(t)
    \/ legacy_release(t)
    \/ legacy_test_connection_finish(t)
    \/ legacy_refresh_data_step(t)

FieldSteps(t) ==
    \/ get_field_begin(t)
    \/ get_field_lookup(t)
    \/ get_field_gate(t)
    \/ Propagate(t)

ConnectSteps(t) ==
    \/ test_connection_check_port(t)
    \/ test_connection_new_port_lock(t)
    \/ test_connection_check_address(t)
    \/ test_connection_new_address_lock(t)
    \/ test_connection_instrument(t)
    \/ test_connection_identify(t)
    \/ test_connection_identified(t)
    \/ test_connection_finish(t)
    \/ pass_step(t)

\* The polling loop: one thread connects an object and calls its operations
\* one after the other.
Init ==
    Constructed(1, 1, Uniform(VersionAnswers), InitialCellCounts,
                [t \in Threads |-> IF t = 1 THEN PollOps ELSE 0], Catalog)

Next ==
    \/ call_test_connection(1, 1)
    \/ \E fn \in Passes : call_pass(1, 1, fn)
    \/ call_refresh_data(1, 1)
    \/ call_unique_identifier(1, 1)
    \/ \E name \in FieldNames : \E acc \in AccValues : call_get_field(1, 1, name, acc)
    \/ \E name \in CellFieldNames : call_get_cell_field(1, 1, name, 0, "True")
    \/ \E type \in TypeNames : call_get_modbus_value(1, 1, 0, type)
    \/ call_get_modbus_version(1, 1)
    \/ call_get_modbus_hw_support(1, 1, 0)
    \/ CacheSteps(1)
    \/ LockSteps(1)
    \/ TransportSteps(1)
    \/ ValueSteps(1)
    \/ FieldSteps(1)
    \/ ConnectSteps(1)
    \/ refresh_data_step(1)
    \/ unique_identifier_step(1)

Spec == Init /\ [][Next]_vars

\* The caches over time: one thread calls the cached functions of two objects
\* on the same port while the clock advances (no operation reads cell_count).
CacheInit ==
    Constructed(1, 2, Uniform({<<2, 0, 3>>, <<3, 1, 0>>}), {None},
                [t \in Threads |-> IF t = 1 THEN CacheOps ELSE 0], Catalog)

CacheNext ==
    \/ \E d \in Devices :
        \/ call_test_connection(1, d)
        \/ \E name \in {"voltage", "current"} : \E acc \in AccValues :
              call_get_field(1, d, name, acc)
        \/ call_get_cell_field(1, d, "voltage", 0, "True")
        \/ call_get_modbus_version(1, d)
        \/ call_get_modbus_hw_support(1, d, 0)
    \/ CacheSteps(1)
    \/ LockSteps(1)
    \/ TransportSteps(1)
    \/ FieldSteps(1)
    \/ ConnectSteps(1)
    \/ Tick

CacheSpec == CacheInit /\ [][CacheNext]_vars

\* Two threads, each with its own object, connect and read while the other
\* does: object 1 on port 1 with address 1, object 2 on the same port with
\* another address, or on another port with the same address (no operation
\* reads cell_count).
LockInit ==
    \E c \in {<<1, 2>>, <<2, 1>>} :
        Constructed(c[1], c[2], Uniform({<<2, 0, 3>>}), {None},
                    [t \in Threads |-> IF t = 1 THEN LockOps + 1 ELSE LockOps], Catalog)

LockNext ==
    \E t \in Threads :
        \/ call_test_connection(t, t)
        \/ call_get_field(t, t, "current", "True")
        \/ \E type \in {"uint16", "uint8"} : call_get_modbus_value(t, t, 0, type)
        \/ CacheSteps(t)
        \/ LockSteps(t)
        \/ LockKeyError(t)
        \/ TransportSteps(t)
        \/ ValueSteps(t)
        \/ FieldSteps(t)
        \/ ConnectSteps(t)

LockSpec == LockInit /\ [][LockNext]_vars

\* One device with two threads: thread 1 connects the device, both threads
\* call the reading operations; either driver is loaded.
DeviceInit ==
    \E c \in {<<Catalog, <<2, 0, 3>>>>, <<Legacy, <<1, 0, 0>>>>} :
        Constructed(1, 1, Uniform({c[2]}), InitialCellCounts,
                    [t \in Threads |-> IF t = 1 THEN DeviceOps + 1 ELSE DeviceOps], c[1])

DeviceNext ==
    \/ call_test_connection(1, 1)
    \/ call_legacy(1, 1, "etc.test_connection")
    \/ \E t \in Threads :
        \/ \E name \in {"voltage", "current"} : call_get_field(t, 1, name, "True")
        \/ call_get_cell_field(t, 1, "voltage", 0, "True")
        \/ call_get_modbus_version(t, 1)
        \/ \E fn \in Passes : call_pass(t, 1, fn)
        \/ call_unique_identifier(t, 1)
        \/ \E fn \in {"etc.get_settings", "etc.read_cell_data", "etc.unique_identifier",
                      "etc.get_modbus_version"} :
              call_legacy(t, 1, fn)
        \/ CacheSteps(t)
        \/ LockSteps(t)
        \/ TransportSteps(t)
        \/ FieldSteps(t)
        \/ ConnectSteps(t)
        \/ unique_identifier_step(t)
        \/ LegacySteps(t)

DeviceSpec == DeviceInit /\ [][DeviceNext]_vars

\* A connection that outlives a firmware change: one thread connects the
\* device and reads from it, the clock advances past the cache lifetime and
\* the device starts to answer the version register with another value.
VersionInit ==
    \E c \in {<<Catalog, <<2, 0, 3>>>>, <<Legacy, <<1, 0, 0>>>>} :
        Constructed(1, 1, Uniform({c[2]}), {None},
                    [t \in Threads |-> IF t = 1 THEN VersionOps ELSE 0], c[1])

VersionNext ==
    \/ call_test_connection(1, 1)
    \/ \E name \in {"voltage", "current"} : call_get_field(1, 1, name, "True")
    \/ call_get_modbus_version(1, 1)
    \/ \E fn \in {"etc.test_connection", "etc.get_modbus_version", "etc.unique_identifier"} :
          call_legacy(1, 1, fn)
    \/ CacheSteps(1)
    \/ LockSteps(1)
    \/ TransportSteps(1)
    \/ FieldSteps(1)
    \/ ConnectSteps(1)
    \/ LegacySteps(1)
    \/ Tick
    \/ \E c \in {<<<<2, 0, 3>>, <<3, 1, 0>>>>, <<<<1, 0, 0>>, <<2, 0, 3>>>>} :
          firmware_update(c[1], c[2])

VersionSpec == VersionInit /\ [][VersionNext]_vars

\* refresh_data of both drivers: one thread connects a device and refreshes
\* its data; the device answers a supported or an unsupported version, or, to
\* the legacy driver, another patch level of the supported version.
RefreshInit ==
    \E c \in {<<Catalog, {<<2, 0, 3>>, <<3, 1, 0>>}>>, <<Legacy, {<<1, 0, 0>>, <<1, 0, 1>>}>>} :
        Constructed(1, 1, Uniform(c[2]), InitialCellCounts,
                    [t \in Threads |-> IF t = 1 THEN RefreshOps ELSE 0], c[1])

RefreshNext ==
    \/ call_test_connection(1, 1)
    \/ call_refresh_data(1, 1)
    \/ \E fn \in {"etc.test_connection", "etc.refresh_data", "etc.unique_identifier"} :
          call_legacy(1, 1, fn)
    \/ CacheSteps(1)
    \/ LockSteps(1)
    \/ transport_function_begin(1)
    \/ transport_call(1)
    \/ read_string_returns(1)
    \/ get_field_begin(1)
    \/ get_field_lookup(1)
    \/ Propagate(1)
    \/ ConnectSteps(1)
    \/ pass_step(1)
    \/ refresh_data_step(1)
    \/ LegacySteps(1)

RefreshSpec == RefreshInit /\ [][RefreshNext]_vars

\* The LTT/JDB driver: one caller reads the settings, refreshes the data and
\* sets protection flags in any order.
LttInit ==
    Constructed(1, 1, Uniform({<<1, 0, 0>>}), {None}, [t \in Threads |-> 0], Legacy)

LttNext ==
    \/ LttJdb_get_settings
    \/ LttJdb_refresh_data
    \/ \E value \in BOOLEAN :
        \/ set_voltage_high_cell(value)
        \/ set_voltage_low_cell(value)
        \/ set_short(value)
        \/ set_ic_inspection(value)
        \/ set_software_lock(value)

LttSpec == LttInit /\ [][LttNext]_vars

\* The value reads of both drivers: one thread connects a device and reads
\* registers of every kind from it.
FloatInit ==
    \E c \in {<<Catalog, <<2, 0, 3>>>>, <<Legacy, <<1, 0, 0>>>>} :
        Constructed(1, 1, Uniform({c[2]}), {None, 1},
                    [t \in Threads |-> IF t = 1 THEN FloatOps ELSE 0], c[1])

FloatNext ==
    \/ call_test_connection(1, 1)
    \/ \E type \in {"float32", "float64", "bool", "uint16"} : call_get_modbus_value(1, 1, 0, type)
    \/ \E fn \in {"etc.test_connection", "etc.get_settings", "etc.read_status_data",
                  "etc.read_cell_data"} :
          call_legacy(1, 1, fn)
    \/ CacheSteps(1)
    \/ LockSteps(1)
    \/ transport_function_begin(1)
    \/ transport_call(1)
    \/ read_string_returns(1)
    \/ read_register_returns(1)
    \/ get_field_begin(1)
    \/ get_field_lookup(1)
    \/ Propagate(1)
    \/ ConnectSteps(1)
    \/ LegacySteps(1)

FloatSpec == FloatInit /\ [][FloatNext]_vars

(* ---------------------------------------------------------------------- *)
(* Claims                                                                  *)
(* ---------------------------------------------------------------------- *)
\* C1: once two devices with different addresses on the same port have both
\* passed the lock set-up of test_connection (lines 133-136), no two transport
\* accesses of the two devices are in progress at the same time.
C1_PortSerialized ==
    \A t, u \in Threads :
        ( /\ t # u
          /\ {self[t], self[u]} \subseteq setup
          /\ port[self[t]] = port[self[u]]
          /\ address[self[t]] # address[self[u]] )
        => ~(InFlight(t) /\ InFlight(u))

\* C2: for one device address at most one transport access is in flight at any
\* time, whatever reading operations the threads call on the device, in the
\* catalog-driven driver and in the legacy driver.
C2_OneInFlightPerAddress ==
    \A t \in Threads : \A u \in Threads \ {t} :
        (InFlight(t) /\ InFlight(u)) => address[self[t]] # address[self[u]]

\* a read of one thread is in flight while the other thread waits for the lock
C2_Witness ==
    \E t \in Threads : \E u \in Threads \ {t} :
        /\ InFlight(t)
        /\ WaitsForLock(u)
        /\ address[self[t]] = address[self[u]]

\* the locks of the two kinds that thread t holds
PortLocksOf(t) == {lk \in HeldBy(t) : lk[1] = "port"}
AddressLocksOf(t) == {lk \in HeldBy(t) : lk[1] = "address"}

\* C3: a thread never holds an address lock without a port lock (so the port
\* lock is taken first and released last), a transport access is in progress
\* only under a port lock and an address lock of the thread, and a thread whose
\* operation has returned or raised holds no lock.
C3_LockDiscipline ==
    \A t \in Threads :
        /\ AddressLocksOf(t) # {} => PortLocksOf(t) # {}
        /\ InFlight(t) => /\ Top(t).plock \in PortLocksOf(t)
                          /\ Top(t).alock \in AddressLocksOf(t)
        /\ Idle(t) => HeldBy(t) = {}

\* a register read has raised and the operation is over
C3_Witness ==
    \E t \in Threads :
        /\ Idle(t)
        /\ obs[t].op = "get_modbus_value"
        /\ obs[t].failed = 1
        /\ ret[t] = RetNum("None", 0)

\* the steps of the started operations (everything but the start of a call)
LockRun ==
    \E t \in Threads :
        \/ CacheSteps(t)
        \/ LockSteps(t)
        \/ LockKeyError(t)
        \/ TransportSteps(t)
        \/ ValueSteps(t)
        \/ FieldSteps(t)
        \/ ConnectSteps(t)

\* C4: no deadlock: while an operation is under way some thread can take a
\* step (every operation is a finite sequence of steps, so it completes), no
\* thread waits for a lock it holds itself, and when no operation is under way
\* every lock is free.
C4_NoDeadlock ==
    /\ (\E t \in Threads : ~Idle(t)) => ENABLED LockRun
    /\ \A t \in Threads :
          ~Idle(t) =>
             /\ Top(t).pc = "with_port" => port_locks[port[self[t]]] \notin HeldBy(t)
             /\ Top(t).pc = "with_address" => address_locks[address[self[t]]] \notin HeldBy(t)
    /\ (\A t \in Threads : Idle(t)) => \A lk \in DOMAIN holder : holder[lk] = 0

\* a thread waits for a lock that the other thread holds
C4_Witness ==
    \E t \in Threads : \E u \in Threads \ {t} :
        /\ WaitsForLock(t)
        /\ \/ Top(t).pc = "with_port" /\ holder[port_locks[port[self[t]]]] = u
           \/ Top(t).pc = "with_address" /\ holder[address_locks[address[self[t]]]] = u

\* the catalog entry of field name under the protocol version that the device
\* of object d reports (kind "found": there is one)
FieldEntry(d, name) ==
    ScanTables(IROCK_MODBUS_REGISTERS, 1,
               get_modbus_version_result(TRUE, firmware[<<mbdevs[address[d]], address[d]>>]),
               name)

Catalogued(d, name) ==
    /\ mbdevs[address[d]] # None
    /\ FieldEntry(d, name).kind = "found"

\* the catalog entry of the field declares no capability probe
Ungated(d, name) ==
    LET r == FieldEntry(d, name) IN
    IROCK_MODBUS_REGISTERS[r.table].register[r.index].hardware_support_register = None

\* C5: a pass (get_settings, read_status_data, read_cell_data) during whose
\* mandatory block a transport read raised or timed out returns False.
C5_MandatoryFailureFailsPass ==
    \A t \in Threads :
        (Idle(t) /\ obs[t].op \in Passes /\ obs[t].mfailed > 0) => ret[t] = RetVal("False")

\* C6: a pass on a connected device whose mandatory fields are all in the
\* catalog of the device's protocol version, and during which no transport
\* read failed and no capability probe was denied, returns True: it neither
\* returns False nor raises, whatever its optional fields do.
C6_PassSucceeds ==
    \A t \in Threads :
        ( /\ Idle(t)
          /\ obs[t].op \in Passes
          /\ obs[t].failed = 0
          /\ obs[t].denied = 0
          /\ IF obs[t].op = "read_cell_data" THEN cell_count[self[t]] # None
             ELSE \A i \in 1..Len(MandatoryFields(obs[t].op)) :
                      Catalogued(self[t], MandatoryFields(obs[t].op)[i]) )
        => ret[t] = RetVal("True")

\* C7: a get_field call whose capability probe answered "not supported" (the
\* coil read 0, no transport failure) does not report failure: called with the
\* accumulator True it does not hand False to the enclosing pass.
C7_DeniedProbeIsSoft ==
    \A t \in Threads :
        ( /\ Idle(t)
          /\ obs[t].op = "get_field"
          /\ obs[t].acc = "True"
          /\ obs[t].denied > 0
          /\ obs[t].failed = 0 )
        => ret[t] # RetVal("False")

\* C8: a get_field call that is answered by the cache issues no transport
\* read, and a get_field call for a catalogued field without capability probe
\* that is not answered by the cache (nothing read yet, or the time-to-live has
\* elapsed) issues exactly one register read, unless a transport read fails.
C8_OneReadPerLifetime ==
    \A t \in Threads :
        (Idle(t) /\ obs[t].op = "get_field") =>
            /\ obs[t].served > 0 =>
                  obs[t].reads + obs[t].coils + obs[t].versions = 0
            /\ ( /\ obs[t].served = 0
                 /\ obs[t].failed = 0
                 /\ Catalogued(self[t], obs[t].name)
                 /\ Ungated(self[t], obs[t].name) )
               => obs[t].reads = 1

\* C9: whenever a call of a cached function is answered by the cache (the
\* wrapped function does not run), the entry it returns was stored less than
\* the function's lifetime (get_field, get_cell_field: 1 s; get_modbus_version,
\* get_modbus_hw_support: 120 s) before the call.
C9_NoStaleHit ==
    \A t \in Threads :
        (At(t, "wrapped_func", "L99") /\ Top(t).hit) =>
            Top(t).t0 - Top(t).at < lifetime(Top(t).f)

\* a call is answered by the cache some time after the entry was stored
C9_Witness ==
    \E t \in Threads :
        /\ At(t, "wrapped_func", "L99")
        /\ Top(t).hit
        /\ Top(t).t0 > Top(t).at

\* C10: no cache holds the result of a computation during which a transport
\* read raised or timed out, so the next call with the same arguments reads
\* again.
C10_FailuresNotCached ==
    \A f \in CachedFunctions : \A e \in cache[f] : ~e.fault

\* the cell catalog entry of field name under the protocol version that the
\* device of object d reports
CellEntry(d, name) ==
    ScanTables(IROCK_MODBUS_CELL_REGISTERS, 1,
               get_modbus_version_result(TRUE, firmware[<<mbdevs[address[d]], address[d]>>]),
               name)

\* C11: a get_cell_field call for a field of the cell catalog and a cell index
\* i with 0 <= i < cell_count, not answered by the cache and without transport
\* failure, reads one register, at table offset + i * table length + field
\* offset.
C11_CellAddress ==
    \A t \in Threads :
        ( /\ Idle(t)
          /\ obs[t].op = "get_cell_field"
          /\ obs[t].served = 0
          /\ obs[t].failed = 0
          /\ mbdevs[address[self[t]]] # None
          /\ CellEntry(self[t], obs[t].name).kind = "found"
          /\ cell_count[self[t]] # None
          /\ 0 <= obs[t].n /\ obs[t].n < cell_count[self[t]] )
        => LET r == CellEntry(self[t], obs[t].name)
               table == IROCK_MODBUS_CELL_REGISTERS[r.table]
           IN /\ obs[t].reads = 1
              /\ obs[t].adr = table.offset + obs[t].n * table.length
                                + table.register[r.index].offset

\* largest patch number compared
MaxPatch == 3

\* the catalog of the function whose frame is fr
TablesOf(fr) ==
    IF fr.fn = "get_field" THEN IROCK_MODBUS_REGISTERS ELSE IROCK_MODBUS_CELL_REGISTERS

\* thread t is in get_field or get_cell_field with the version resolved, at
\* the lookup loop
AtLookup(t) ==
    /\ ~Idle(t)
    /\ Top(t).fn \in {"get_field", "get_cell_field"}
    /\ Top(t).pc = "L360"
    /\ ret[t].kind = "ret"
    /\ ret[t].ver # NoVersion

\* C12: whenever get_field or get_cell_field looks a name up for a resolved
\* version, the lookup gives the same table entry for every patch number of
\* that major and minor, the entry is in a table of that major and minor, and
\* if no table has that major and minor no field is resolved.
C12_MajorMinorOnly ==
    \A t \in Threads :
        AtLookup(t) =>
            LET tables == TablesOf(Top(t))
                v == ret[t].ver
                r == ScanTables(tables, 1, v, Top(t).name)
                matching == {j \in 1..Len(tables) :
                                /\ tables[j].version[1] = v[1]
                                /\ tables[j].version[2] = v[2]}
            IN /\ \A patch \in 0..MaxPatch :
                      ScanTables(tables, 1, <<v[1], v[2], patch>>, Top(t).name) = r
               /\ r.kind = "found" => r.table \in matching
               /\ matching = {} => r.kind = "notfound"

\* a name is resolved for a device whose patch number differs from the table's
C12_Witness ==
    \E t \in Threads :
        /\ AtLookup(t)
        /\ LET r == ScanTables(TablesOf(Top(t)), 1, ret[t].ver, Top(t).name) IN
           /\ r.kind = "found"
           /\ TablesOf(Top(t))[r.table].version # ret[t].ver

\* the version string that the device of object d answers, as Version.coerce reads it
Reported(d) == VersionCoerce(firmware[<<port[d], address[d]>>])

\* the device of object d reports a version that the loaded driver has no
\* catalog entry for (the legacy driver knows 1.0.0 only)
Unsupported(d) ==
    /\ Reported(d) # NoVersion
    /\ IF driver = Legacy THEN Reported(d) # <<1, 0, 0>>
       ELSE \A j \in 1..Len(IROCK_MODBUS_REGISTERS) :
               \/ IROCK_MODBUS_REGISTERS[j].version[1] # Reported(d)[1]
               \/ IROCK_MODBUS_REGISTERS[j].version[2] # Reported(d)[2]

\* thread t is in test_connection, or its last operation was test_connection
InTestConnection(t) == obs[t].op \in {"test_connection", "etc.test_connection"}

\* get_settings or refresh_data is running in thread t
Loading(t) ==
    \E i \in 1..Len(stack[t]) :
        stack[t][i].fn \in {"get_settings", "refresh_data", "etc.get_settings",
                            "etc.refresh_data"}

\* C13: during a test_connection on a device that reports (every transport read
\* answering) a version without catalog entry, get_settings and refresh_data
\* are not invoked, and the test_connection returns False.
C13_UnsupportedVersionStops ==
    \A t \in Threads :
        (InTestConnection(t) /\ obs[t].failed = 0 /\ Unsupported(self[t])) =>
            /\ ~Loading(t)
            /\ (Idle(t) /\ obs[t].versions + obs[t].reads > 0) => ret[t] = RetVal("False")

\* C14: in both drivers get_settings runs inside test_connection only after
\* the identification reads succeeded (none of them returned failure or
\* raised), and refresh_data only after get_settings returned.
C14_ConnectInOrder ==
    \A t \in Threads :
        (~Idle(t) /\ stack[t][1].fn \in {"test_connection", "etc.test_connection"}) =>
            /\ Loading(t) => /\ stack[t][1].acc = "True"
                             /\ stack[t][1].exc = ""
            /\ (\E i \in 1..Len(stack[t]) :
                    stack[t][i].fn \in {"refresh_data", "etc.refresh_data"})
               => stack[t][1].pc \in {"L167", "L102"}

\* a version is handed to the code that uses it: the lookup of get_field and
\* get_cell_field (line 360), or a legacy function that asked for it
VersionInUse(t) ==
    \/ AtLookup(t)
    \/ /\ ~Idle(t) /\ Top(t).fn \in LegacyFunctions /\ Top(t).pc = "version"
       /\ ret[t].kind = "ret" /\ ret[t].ver # NoVersion

\* C15: once a protocol version has been resolved for a connected device,
\* every later use of the version on that device (the lookup of get_field and
\* get_cell_field, the passes built on them, the legacy functions) sees that
\* same version for as long as the Instrument stored at connection stays,
\* whatever the device answers later.
C15_VersionImmutable ==
    \A t \in Threads :
        (VersionInUse(t) /\ resolved[address[self[t]]] # NoVersion)
            => ret[t].ver = resolved[address[self[t]]]

\* C16: a completed get_field or get_cell_field call on a connected device
\* with a supported protocol version, without transport failure, for a name
\* that no entry of the device's catalog table carries, has returned False
\* without raising and has issued no register read and no coil read.
C16_UnknownNameIsNotFound ==
    \A t \in Threads :
        LET tables == IF obs[t].op = "get_field" THEN IROCK_MODBUS_REGISTERS
                      ELSE IROCK_MODBUS_CELL_REGISTERS
            v == get_modbus_version_result(TRUE, firmware[<<port[self[t]], address[self[t]]>>])
            matching == IF v = NoVersion THEN {}
                        ELSE {j \in 1..Len(tables) : /\ tables[j].version[1] = v[1]
                                                      /\ tables[j].version[2] = v[2]}
            contained == \E j \in matching : \E i \in 1..Len(tables[j].register) :
                            LET fieldname == tables[j].register[i].fieldname IN
                            /\ fieldname \in DOMAIN IROCK_TO_LOCAL_FIELD_NAMES
                            /\ IROCK_TO_LOCAL_FIELD_NAMES[fieldname] = obs[t].name
        IN ( /\ Idle(t)
             /\ obs[t].op \in {"get_field", "get_cell_field"}
             /\ mbdevs[address[self[t]]] # None
             /\ obs[t].failed = 0
             /\ matching # {}
             /\ ~contained )
           => /\ ret[t] = RetVal("False")
              /\ obs[t].reads = 0
              /\ obs[t].coils = 0

\* C17: a completed get_modbus_value call on a connected device for a type
\* the driver does not know (a string outside BaseType) or has no branch for
\* (int8, uint8) has not raised: it has returned None, has sent no request,
\* and its thread holds no lock.
C17_UnknownTypeIsSkipped ==
    \A t \in Threads :
        ( /\ Idle(t)
          /\ obs[t].op = "get_modbus_value"
          /\ obs[t].name \notin HandledTypes
          /\ mbdevs[address[self[t]]] # None )
        => /\ ret[t] = RetNum("None", 0)
           /\ obs[t].reads = 0
           /\ HeldBy(t) = {}

\* C18: a get_field or get_cell_field call for a field of the catalog that
\* needs no capability probe, on a connected device, not answered by the cache
\* and with every transport read answering, returns success (its andOperator,
\* here True) after the one transport read whose value the attribute named by
\* IROCK_TO_LOCAL_FIELD_NAMES then holds.
C18_SuccessStoresValue ==
    \A t \in Threads :
        LET d == self[t]
            r == IF obs[t].op = "get_field" THEN FieldEntry(d, obs[t].name)
                 ELSE CellEntry(d, obs[t].name)
            tables == IF obs[t].op = "get_field" THEN IROCK_MODBUS_REGISTERS
                      ELSE IROCK_MODBUS_CELL_REGISTERS
        IN ( /\ Idle(t)
             /\ obs[t].op \in {"get_field", "get_cell_field"}
             /\ obs[t].acc = "True"
             /\ obs[t].served = 0
             /\ obs[t].failed = 0
             /\ mbdevs[address[d]] # None
             /\ r.kind = "found"
             /\ tables[r.table].register[r.index].hardware_support_register = None )
           => /\ ret[t] = RetVal("True")
              /\ obs[t].reads = 1

\* C19: every logical name of every table of IROCK_MODBUS_REGISTERS and
\* IROCK_MODBUS_CELL_REGISTERS is a key of IROCK_TO_LOCAL_FIELD_NAMES, so the
\* lookup of a thread in get_field or get_cell_field can translate every entry
\* it visits, and every key of the mapping names a field of some table.
C19_MappingInStep ==
    LET catalog == {IROCK_MODBUS_REGISTERS, IROCK_MODBUS_CELL_REGISTERS}
        FieldsOf(tables) == UNION {{tables[j].register[i].fieldname :
                                       i \in 1..Len(tables[j].register)} : j \in 1..Len(tables)}
        names == UNION {FieldsOf(tables) : tables \in catalog}
    IN /\ names \subseteq DOMAIN IROCK_TO_LOCAL_FIELD_NAMES
       /\ DOMAIN IROCK_TO_LOCAL_FIELD_NAMES \subseteq names
       /\ \A t \in Threads :
             AtLookup(t) => ScanTables(TablesOf(Top(t)), 1, ret[t].ver, Top(t).name).kind # "KeyError"

\* the next statement of thread t writes cache state: it clears an expired
\* cache and resets the expiration (lines 95-97), or it stores or clears after
\* the function returned (lines 98-100)
CacheWriter(t) ==
    \/ At(t, "wrapped_func", "L95") /\ now >= expiration[Top(t).f]
    \/ At(t, "wrapped_func", "L98r") /\ ret[t].kind = "ret"
    \/ At(t, "wrapped_func", "L99") /\ Top(t).val = "None"

\* C20: a thread that is about to write cache state (store an entry, clear the
\* cache, reset the expiration) holds the port lock and the address lock of
\* its device, and no two threads are about to write the same cache.
C20_CacheWritesLocked ==
    /\ \A t \in Threads :
          CacheWriter(t) =>
              /\ port_locks[port[self[t]]] # NoLock
              /\ holder[port_locks[port[self[t]]]] = t
              /\ address_locks[address[self[t]]] # NoLock
              /\ holder[address_locks[address[self[t]]]] = t
    /\ \A t, u \in Threads :
          (t # u /\ CacheWriter(t) /\ CacheWriter(u)) => Top(t).f # Top(u).f

\* C21: at most one lock object is ever created for one port and for one
\* address (an entry of port_locks / address_locks / locks is never replaced by
\* another lock object), and two threads never hold a lock of the same port or
\* of the same address at the same time.
C21_OneLockPerKey ==
    /\ \A lk \in DOMAIN holder : \A other \in DOMAIN holder :
          (lk[1] = other[1] /\ lk[2] = other[2]) => lk = other
    /\ \A t \in Threads : \A u \in Threads \ {t} :
          \A lk \in HeldBy(t) : \A other \in HeldBy(u) :
              ~(lk[1] = other[1] /\ lk[2] = other[2])

\* C22: one invocation of get_modbus_value, get_modbus_hw_support or
\* get_modbus_version sends at most one transport request, and an invocation
\* whose request raised or timed out has returned its failure result (None,
\* False, None).
C22_NoRetry ==
    \A t \in Threads :
        /\ obs[t].op \in {"get_modbus_value", "get_modbus_hw_support", "get_modbus_version"}
              => obs[t].reads + obs[t].coils + obs[t].versions <= 1
        /\ (Idle(t) /\ obs[t].failed > 0) =>
              /\ obs[t].op = "get_modbus_value" => ret[t] = RetNum("None", 0)
              /\ obs[t].op = "get_modbus_hw_support" => ret[t] = RetVal("False")
              /\ obs[t].op = "get_modbus_version" => ret[t] = RetVer(NoVersion)

\* a capability probe has raised and the invocation is over after one request
C22_Witness ==
    \E t \in Threads :
        /\ Idle(t)
        /\ obs[t].op = "get_modbus_hw_support"
        /\ obs[t].coils = 1
        /\ obs[t].failed = 1

\* C23: during and after a get_field call on a connected device for a field
\* of the catalog: if the entry declares a hardware_support_register, at most
\* one coil read is sent, at that address and before any register read, and a
\* register read is sent only after the probe answered true; if the entry
\* declares none, no coil read is sent and the call, when no transport read
\* failed and the cache did not answer, has sent the register read.
C23_ProbeGatesRead ==
    \A t \in Threads :
        ( /\ obs[t].op = "get_field"
          /\ mbdevs[address[self[t]]] # None
          /\ FieldEntry(self[t], obs[t].name).kind = "found" )
        => IF Ungated(self[t], obs[t].name)
           THEN /\ obs[t].coils = 0
                /\ (Idle(t) /\ obs[t].failed = 0 /\ obs[t].served = 0) => obs[t].reads = 1
           ELSE LET r == FieldEntry(self[t], obs[t].name)
                    fielddata == IROCK_MODBUS_REGISTERS[r.table].register[r.index]
                IN /\ obs[t].coils <= 1
                   /\ (~Idle(t) /\ Top(t).fn = "get_modbus_hw_support" /\ Top(t).pc = "io")
                         => /\ Top(t).n = fielddata.hardware_support_register
                            /\ obs[t].reads = 0
                   /\ obs[t].reads > 0 => (obs[t].denied = 0 /\ obs[t].failed = 0)

\* C24: for a completed get_field call (accumulator True) on a connected
\* device for a field with a capability probe, without transport failure and
\* not answered by the get_field cache: a denial given without a probe of its
\* own rests on a probe result stored less than 120 s before the call began,
\* and a call whose own probe answered "supported" has succeeded.
C24_DenialNotPinned ==
    \A t \in Threads :
        ( /\ Idle(t)
          /\ obs[t].op = "get_field"
          /\ obs[t].acc = "True"
          /\ obs[t].served = 0
          /\ obs[t].failed = 0
          /\ Catalogued(self[t], obs[t].name)
          /\ ~Ungated(self[t], obs[t].name) )
        => LET r == FieldEntry(self[t], obs[t].name)
               coil == IROCK_MODBUS_REGISTERS[r.table].register[r.index].hardware_support_register
           IN /\ (obs[t].coils = 0 /\ ret[t] = RetVal("False")) =>
                    \E e \in cache["get_modbus_hw_support"] :
                        /\ e.key.d = self[t] /\ e.key.n = coil
                        /\ e.val = "False"
                        /\ obs[t].start - e.at < lifetime("get_modbus_hw_support")
              /\ (obs[t].coils = 1 /\ obs[t].denied = 0) => ret[t] = RetVal("True")

\* C25: when get_modbus_value has decoded the answer of a register read for a
\* field of type bool, the result is True if and only if the register value
\* is 1.
C25_BoolIsOne ==
    \A t \in Threads :
        ( /\ ~Idle(t)
          /\ Top(t).fn = "get_modbus_value"
          /\ Top(t).typ = "bool"
          /\ Top(t).pc \in {"exit_address", "exit_port"}
          /\ Top(t).val \in {"True", "False"} )
        => (Top(t).val = "True" <=> Top(t).raw = 1)

\* C26: a float that either driver has decoded spans 2 registers (float32,
\* every legacy read_float) or 4 registers (float64), and its bytes, most
\* significant first, are the registers taken last to first, each with its
\* high byte first: the first register is the low-order word.  A float read
\* of get_modbus_value in flight uses BYTEORDER_LITTLE_SWAP.
C26_FloatWordSwapped ==
    \A t \in Threads :
        ~Idle(t) =>
          LET fr == Top(t)
              n == IF fr.fn = "get_modbus_value" /\ fr.typ = "float64" THEN 4 ELSE 2
              payload == FloatPayload(IF fr.fn = "get_modbus_value" THEN fr.raw ELSE 0, n)
          IN /\ (fr.fn = "get_modbus_value" /\ fr.pc = "io" /\ fr.typ \in {"float32", "float64"})
                   => byteorder(fr.typ) = BYTEORDER_LITTLE_SWAP
             /\ fr.bits # <<>> =>
                   /\ Len(fr.bits) = 2 * n
                   /\ \A i \in 1..n :
                         /\ fr.bits[2 * (n - i) + 1] = payload[i] \div 256
                         /\ fr.bits[2 * (n - i) + 2] = payload[i] % 256

\* get_modbus_value has decoded a float64, the legacy driver a float
C26_Witness ==
    \E t \in Threads :
        /\ ~Idle(t)
        /\ Top(t).bits # <<>>
        /\ \/ Top(t).fn = "get_modbus_value" /\ Top(t).typ = "float64" /\ Top(t).raw = 2
           \/ Top(t).fn = "etc.read_status_data"

\* C27: the driver holds no allow-list for any hardware model, so the fields
\* allowed on a connected device are the generic minimum set (manufacturer id,
\* protocol version, hardware name): a get_field call for any other name sends
\* no register read and no coil read, and it ends without an exception.
C27_NotAllowedIsSkipped ==
    \A t \in Threads :
        ( /\ obs[t].op = "get_field"
          /\ mbdevs[address[self[t]]] # None
          /\ obs[t].name \notin {"manufacturer_id", "modbus_version", "hardware_name"} )
        => /\ obs[t].reads = 0
           /\ obs[t].coils = 0
           /\ Idle(t) => ret[t].kind # "exc"

\* C28: a read_cell_data pass of the catalog-driven driver on a connected
\* device with a supported protocol version and a known cell_count holds no
\* lock between two cell reads (whenever the pass itself is about to run its
\* next statement), and, when no transport read failed, it ends normally after
\* at least one register read per cell 0 .. cell_count-1.
C28_CellReadsOneByOne ==
    \A t \in Threads :
        ( /\ obs[t].op = "read_cell_data"
          /\ mbdevs[address[self[t]]] # None
          /\ CellEntry(self[t], "voltage").kind = "found"
          /\ cell_count[self[t]] # None )
        => /\ (~Idle(t) /\ Top(t).fn = "read_cell_data") => HeldBy(t) = {}
           /\ (Idle(t) /\ obs[t].failed = 0) =>
                 /\ ret[t].kind = "ret"
                 /\ obs[t].reads >= cell_count[self[t]]

\* C29: once a field of the mandatory block of get_settings, read_status_data
\* or read_cell_data has failed (the pass's answer is False while it is still
\* in its mandatory block), the pass has no register read and no coil read in
\* flight, be it for a field value, a capability probe or the version
\* registers: it issues no transport read for the remaining mandatory fields.
C29_MandatoryFailureAborts ==
    \A t \in Threads :
        \A i \in 1..Len(stack[t]) :
            LET fr == stack[t][i]
                cc == IF cell_count[self[t]] = None THEN 0 ELSE cell_count[self[t]]
            IN ( /\ fr.fn \in Passes
                 /\ fr.pc = "await"
                 /\ fr.acc = "False"
                 /\ fr.n <= Mandatory(fr.fn, cc) )
               => ~( /\ InFlight(t)
                     /\ Top(t).fn \in {"get_modbus_version", "get_modbus_hw_support",
                                       "get_modbus_value"} )

\* C30: every step of refresh_data, in the catalog-driven and in the legacy
\* driver, is one of: it starts the status pass first; it starts the cell pass
\* after the status pass returned True; it returns False without a cell pass
\* after the status pass returned False; it returns what the cell pass
\* returned (so True exactly when both passes returned True); it is left by an
\* exception of a pass.
C30_RefreshOrder ==
    [][\A t \in Threads :
         (~Idle(t) /\ Top(t).fn \in {"refresh_data", "etc.refresh_data"}
                   /\ stack'[t] # stack[t]) =>
         LET fr == Top(t)
             etc == fr.fn = "etc.refresh_data"
             k == Len(stack[t])
             calls(fn) == /\ Len(stack'[t]) = k + 1
                          /\ stack'[t][k + 1].fn = fn
             returns(r) == /\ stack'[t] = Pop(t)[t]
                           /\ ret'[t] = r
         IN \/ /\ fr.pc = IF etc THEN "L238" ELSE "L208"
               /\ calls(IF etc THEN "etc.read_status_data" ELSE "read_status_data")
            \/ /\ fr.pc = IF etc THEN "L241" ELSE "L209"
               /\ ret[t] = RetVal("True")
               /\ calls(IF etc THEN "etc.read_cell_data" ELSE "read_cell_data")
            \/ /\ fr.pc = IF etc THEN "L241" ELSE "L209"
               /\ ret[t] = RetVal("False")
               /\ returns(RetVal("False"))
            \/ /\ fr.pc = IF etc THEN "L247" ELSE "L210"
               /\ ret[t] \in {RetVal("True"), RetVal("False")}
               /\ returns(ret[t])
            \/ /\ fr.pc # IF etc THEN "L238" ELSE "L208"
               /\ ret[t].kind = "exc"
               /\ returns(ret[t])
      ]_vars

\* refresh_data is about to return True: the cell pass, started after a
\* status pass that returned True, has returned True
C30_Witness ==
    \E t \in Threads :
        /\ ~Idle(t)
        /\ Top(t).fn = "etc.refresh_data"
        /\ Top(t).pc = "L247"
        /\ ret[t] = RetVal("True")

\* C31: a get_field or get_cell_field call on a connected device whose version
\* probe was sent and gave None (the read raised, the string does not parse, or
\* the major version is 0) sends no register read and returns False: it does
\* not end with an exception.
C31_VersionFailureIsSoft ==
    \A t \in Threads :
        ( /\ obs[t].op \in {"get_field", "get_cell_field"}
          /\ mbdevs[address[self[t]]] # None
          /\ obs[t].versions = 1
          /\ obs[t].coils = 0
          /\ get_modbus_version_result(obs[t].failed = 0,
                                       firmware[<<mbdevs[address[self[t]]], address[self[t]]>>])
                = NoVersion )
        => /\ obs[t].reads = 0
           /\ (Idle(t) => ret[t] = RetVal("False"))

\* C32: in the legacy driver, a block of test_connection, unique_identifier,
\* get_settings, read_status_data or read_cell_data (with a known cell_count)
\* that was entered with a version 1.0.p and in which no read failed has taken
\* the branch of version 1.0.0: it ends with all its reads done.
C32_PatchIgnored ==
    \A t \in Threads :
        ( /\ ~Idle(t)
          /\ Top(t).fn \in {"etc.test_connection", "etc.unique_identifier", "etc.get_settings",
                            "etc.read_status_data", "etc.read_cell_data"}
          /\ Top(t).pc = "exit"
          /\ Top(t).ver # NoVersion
          /\ Top(t).ver[1] = 1
          /\ Top(t).ver[2] = 0
          /\ obs[t].failed = 0
          /\ Top(t).fn = "etc.read_cell_data" => cell_count[self[t]] # None )
        => Top(t).acc = "True"

\* C33: get_settings and refresh_data of the LttJdb driver return True exactly
\* when no read they issued failed (no serial read returned False and the cell
\* payload was not too short).
C33_LttJdbReportsFailure ==
    lttjdb["op"] \in {"get_settings", "refresh_data"}
        => (lttjdb["ret"] = "True" <=> ~lttjdb["failed"])

\* C39: after an operation of the LttJdb driver whose read_gen_data succeeded,
\* cells holds exactly cell_count Cell objects, and the Cell of index c has bit
\* c of the balance word read.
C39_LttJdbCellsMatchCount ==
    (lttjdb["op"] \in {"get_settings", "refresh_data"} /\ lttjdb["gen_ok"])
        => /\ Len(lttjdb["cells"]) = lttjdb["cell_count"]
           /\ \A i \in 1..Len(lttjdb["cells"]) :
                  lttjdb["cells"][i] = ((lttjdb["balance"] \div (2 ^ (i - 1))) % 2 = 1)

\* C40: once a setter of LttJdbProtection has run, cell_imbalance is 2 if one
\* of the five flags is set and 0 if none is; and once to_protection_bits has
\* run and no setter was called since, the flags are the bits 0 (voltage high
\* cell), 1 (voltage low cell), 10 (short), 11 (IC inspection) and 12 (software
\* lock) of the protection word.
C40_ProtectionFlags ==
    LET any == \/ protection["voltage_high_cell"] \/ protection["voltage_low_cell"]
               \/ protection["short"] \/ protection["IC_inspection"]
               \/ protection["software_lock"]
        bit(i) == (lttjdb["word"] \div (2 ^ i)) % 2 = 1
    IN /\ protection["calls"] > 0 => protection["cell_imbalance"] = IF any THEN 2 ELSE 0
       /\ (lttjdb["op"] \in {"get_settings", "refresh_data"} /\ lttjdb["gen_ok"])
            => /\ protection["voltage_high_cell"] = bit(0)
               /\ protection["voltage_low_cell"] = bit(1)
               /\ protection["short"] = bit(10)
               /\ protection["IC_inspection"] = bit(11)
               /\ protection["software_lock"] = bit(12)

\* C34: a finished call get_field(name, False) or get_cell_field(name, c, False)
\* on a connected device has returned False, whatever the field, the device
\* and the transport did; and a call that returned True was made with
\* andOperator True.
C34_AccumulatorMonotone ==
    \A t \in Threads :
        ( /\ Idle(t)
          /\ obs[t].op \in {"get_field", "get_cell_field"}
          /\ mbdevs[address[self[t]]] # None )
        => /\ obs[t].acc = "False" => ret[t] = RetVal("False")
           /\ ret[t] = RetVal("True") => obs[t].acc = "True"

\* C35: the Instrument through which a transport read of an object is sent was
\* opened on that object's own port, also when two objects have the same
\* address on different ports.
C35_InstrumentOnOwnPort ==
    \A t \in Threads :
        (InFlight(t) /\ Top(t).fn \in {"get_modbus_version", "get_modbus_hw_support",
                                       "get_modbus_value"})
        => Top(t).ioport = port[self[t]]

\* C36: while a version of a device has been read less than one lifetime of
\* the get_modbus_version cache ago (the clock has not reached one lifetime
\* and a version was read for the address since its Instrument was stored),
\* no version read for that device is in flight: the cached entry serves it,
\* whatever calls were made for other devices in the meantime.
C36_CacheEntriesIsolated ==
    \A t \in Threads :
        ( /\ InFlight(t)
          /\ Top(t).fn = "get_modbus_version"
          /\ now < lifetime("get_modbus_version") )
        => resolved[Top(t).n] = NoVersion

\* C37: after a get_settings call (of either driver) that returned True, the
\* number of Cell objects in cells equals cell_count, also when the device
\* reported another number of cells to an earlier get_settings call.
C37_CellsMatchCellCount ==
    \A t \in Threads :
        ( /\ Idle(t)
          /\ obs[t].op \in {"get_settings", "etc.get_settings"}
          /\ ret[t] = RetVal("True") )
        => cells[self[t]] = cell_count[self[t]]

\* C38: for a device whose version was read as 1.0.0, every field both drivers
\* assign has the same register in both: the address of the field in the
\* 1.0.0 table of the catalog is the register the legacy driver reads, and the
\* address get_cell_field computes for the voltage and the balance of a cell
\* is the register the legacy driver reads for that cell.
C38_SameRegisters ==
    \A a \in Addresses :
        resolved[a] = <<1, 0, 0>> =>
            /\ \A name \in {"cell_count", "capacity", "voltage", "current", "soc", "temp1",
                             "temp2", "temp3", "temp4", "max_battery_charge_current",
                             "max_battery_discharge_current", "hardware_name",
                             "hardware_version", "serial_number"} :
                   LET r == ScanTables(IROCK_MODBUS_REGISTERS, 1, resolved[a], name) IN
                   /\ r.kind = "found"
                   /\ IROCK_MODBUS_REGISTERS[r.table].register[r.index].address
                        = legacy_register(name, None)
            /\ \A name \in {"voltage", "balance"} : \A c \in 0..(MaxCells - 1) :
                   LET r == ScanTables(IROCK_MODBUS_CELL_REGISTERS, 1, resolved[a], name)
                       modbusRegisterTable == IROCK_MODBUS_CELL_REGISTERS[r.table]
                   IN /\ r.kind = "found"
                      /\ modbusRegisterTable.offset + (modbusRegisterTable.length * (c - 1))
                           + modbusRegisterTable.register[r.index].offset
                           = legacy_register(name, c)

====
